---- MODULE Spec2Model ----
(***************************************************************************)
(* Intent recognition of mbti_pet (src/src/mbti_pet/intent/__init__.py):   *)
(* the weighted multi-pattern classifier IntentRecognizer, the             *)
(* ScreenActivityAnalyzer with its rolling activity history, and the       *)
(* entry point ContextAwareIntentSystem.analyze.                           *)
(*                                                                         *)
(* Text is a sequence of characters.  An ASCII character is the string of  *)
(* length one; a character outside ASCII is written "{xxxx}" in a literal  *)
(* (its code point in hex) and is the string "uxxxx" in a text.  Scores    *)
(* and weights are in hundredths: 0.95 is 95, 1.0 is 100.                  *)
(***************************************************************************)
EXTENDS Integers, Sequences, FiniteSets, TLC

(***************************************************************************)
(* Characters and text literals                                            *)
(***************************************************************************)
RECURSIVE DecodeFrom(_, _)
DecodeFrom(str, i) ==
  IF i > Len(str) THEN <<>>
  ELSE IF SubSeq(str, i, i) = "{"
       THEN <<"u" \o SubSeq(str, i + 1, i + 4)>> \o DecodeFrom(str, i + 6)
       ELSE <<SubSeq(str, i, i)>> \o DecodeFrom(str, i + 1)

\* The text a literal denotes, as a sequence of characters.
Text(str) == DecodeFrom(str, 1)

CharsOf(str) == {SubSeq(str, i, i) : i \in 1..Len(str)}

UpperLetters == "ABCDEFGHIJKLMNOPQRSTUVWXYZ"
LowerLetters == "abcdefghijklmnopqrstuvwxyz"
Digits == "0123456789"
UpperChars == CharsOf(UpperLetters)
DigitChars == CharsOf(Digits)
SpaceChars == {" ", "\t", "\n", "\r", "\f"}
AsciiWordChars == CharsOf(UpperLetters) \cup CharsOf(LowerLetters) \cup CharsOf(Digits) \cup {"_"}
\* str.lower() on the cased letters
LowerOf == [c \in UpperChars |->
             LET i == CHOOSE j \in 1..Len(UpperLetters) : SubSeq(UpperLetters, j, j) = c
             IN SubSeq(LowerLetters, i, i)]

\* str.lower() on one character: only the cased letters change.
LowerChar(c) == IF c \in UpperChars THEN LowerOf[c] ELSE c

\* str.lower()
Lower(s) == [i \in 1..Len(s) |-> LowerChar(s[i])]

\* re's \s, \d and \w on str patterns (Unicode): a character outside ASCII
\* that occurs in the catalog is a CJK ideograph, which is a word character.
IsSpace(c) == c \in SpaceChars
IsDigit(c) == c \in DigitChars
IsWord(c) == c \in AsciiWordChars \/ Len(c) > 1

(***************************************************************************)
(* Regular expressions: the subset of re the catalog uses.  A pattern is a *)
(* sequence of nodes.                                                      *)
(***************************************************************************)
Unbounded == -1

Lit(str) == [k |-> "lit", s |-> Text(str)]
ANY == [k |-> "any"]
BOL == [k |-> "bol"]
WB == [k |-> "wb"]
Class(neg, chars, cats) == [k |-> "cls", neg |-> neg, chars |-> CharsOf(chars), cats |-> cats]
Grp(body) == [k |-> "grp", body |-> body]
Alt(alts) == [k |-> "alt", alts |-> alts]
Rep(min, max, node) == [k |-> "rep", min |-> min, max |-> max, node |-> node]
\* (a|b|c) with literal alternatives
OneOf(strs) == Grp(<<Alt([i \in 1..Len(strs) |-> <<Lit(strs[i])>>])>>)

InClass(n, c) ==
  LET hit == \/ c \in n.chars
            \/ ("space" \in n.cats /\ IsSpace(c))
            \/ ("digit" \in n.cats /\ IsDigit(c))
            \/ ("word" \in n.cats /\ IsWord(c))
  IN IF n.neg THEN ~hit ELSE hit

\* \b at offset i of s: exactly one of the characters before and after is a
\* word character (the ends of the text count as non-word).
AtBoundary(s, i) ==
  (i > 0 /\ IsWord(s[i])) # (i < Len(s) /\ IsWord(s[i + 1]))

(***************************************************************************)
(* Ends(re, s, i): the offsets at which a match of re starting at offset i *)
(* of s can end, in the order re's backtracking matcher tries them (an     *)
(* alternation left to right, a repetition greedily); the first is the     *)
(* match re reports.                                                       *)
(***************************************************************************)
RECURSIVE Ends(_, _, _), EndsNode(_, _, _), EndsThen(_, _, _, _), EndsAlt(_, _, _, _), EndsRep(_, _, _, _), EndsRepThen(_, _, _, _, _)

Ends(re, s, i) ==
  IF re = <<>> THEN <<i>>
  ELSE EndsThen(EndsNode(Head(re), s, i), Tail(re), s, 1)

EndsThen(es, rest, s, j) ==
  IF j > Len(es) THEN <<>>
  ELSE Ends(rest, s, es[j]) \o EndsThen(es, rest, s, j + 1)

EndsAlt(alts, s, i, j) ==
  IF j > Len(alts) THEN <<>>
  ELSE Ends(alts[j], s, i) \o EndsAlt(alts, s, i, j + 1)

EndsRep(n, s, i, done) ==
  LET more == IF n.max = Unbounded \/ done < n.max
              THEN EndsRepThen(EndsNode(n.node, s, i), n, s, done + 1, 1)
              ELSE <<>>
      stop == IF done >= n.min THEN <<i>> ELSE <<>>
  IN more \o stop

EndsRepThen(es, n, s, done, j) ==
  IF j > Len(es) THEN <<>>
  ELSE EndsRep(n, s, es[j], done) \o EndsRepThen(es, n, s, done, j + 1)

EndsNode(n, s, i) ==
  CASE n.k = "lit" -> IF i + Len(n.s) <= Len(s) /\ SubSeq(s, i + 1, i + Len(n.s)) = n.s
                      THEN <<i + Len(n.s)>> ELSE <<>>
    [] n.k = "any" -> IF i < Len(s) /\ s[i + 1] # "\n" THEN <<i + 1>> ELSE <<>>
    [] n.k = "cls" -> IF i < Len(s) /\ InClass(n, s[i + 1]) THEN <<i + 1>> ELSE <<>>
    [] n.k = "bol" -> IF i = 0 THEN <<i>> ELSE <<>>
    [] n.k = "wb" -> IF AtBoundary(s, i) THEN <<i>> ELSE <<>>
    [] n.k = "grp" -> Ends(n.body, s, i)
    [] n.k = "alt" -> EndsAlt(n.alts, s, i, 1)
    [] n.k = "rep" -> EndsRep(n, s, i, 0)

NoMatch == [found |-> FALSE]

\* pattern.search(s) from offset i on: the leftmost match.
RECURSIVE SearchFrom(_, _, _)
SearchFrom(re, s, i) ==
  IF i > Len(s) THEN NoMatch
  ELSE LET es == Ends(re, s, i)
       IN IF es # <<>> THEN [found |-> TRUE, start |-> i, end |-> es[1]]
          ELSE SearchFrom(re, s, i + 1)

\* pattern.search(s)
Search(re, s) == SearchFrom(re, s, 0)

(***************************************************************************)
(* The pattern catalog                                                     *)
(***************************************************************************)
\* A faulty variant of Rule: every rule has half its weight.
RuleHalfWeight(weight, re) == [weight |-> weight \div 2, re |-> re]

\* A faulty variant of Rule: every rule weighs 1.0.
RuleFullWeight(weight, re) == [weight |-> 100, re |-> re]

\* One (pattern, weight) pair of the catalog, the weight in hundredths.
Rule(weight, re) == [weight |-> weight, re |-> re]


\* IntentRecognizer.INTENT_PATTERNS: the categories in the dict's order, each
\* with its (pattern, weight) rules.  __init__ compiles the patterns with
\* re.IGNORECASE; no pattern holds an upper-case letter and recognize_intent
\* searches the lowercased input, so case is matched exactly here.
INTENT_PATTERNS ==
  <<
    [intent |-> "help_request", rules |-> <<
      \* line 52: \b(help|assist|support|guide)\b
      Rule(50, <<WB, OneOf(<<"help", "assist", "support", "guide">>), WB>>),
      \* line 53: \b(show me|how to|can you help|could you help)\b
      Rule(60, <<WB, OneOf(<<"show me", "how to", "can you help", "could you help">>), WB>>),
      \* line 54: \b(need help|stuck|need assistance|need support)\b
      Rule(60, <<WB, OneOf(<<"need help", "stuck", "need assistance", "need support">>), WB>>),
      \* line 55: (\u5e2e\u52a9|\u534f\u52a9|\u652f\u6301|\u6307\u5bfc)
      Rule(50, <<OneOf(<<"{5e2e}{52a9}", "{534f}{52a9}", "{652f}{6301}", "{6307}{5bfc}">>)>>),
      \* line 56: (\u9700\u8981\u5e2e\u52a9|\u56f0\u96be|\u6709\u56f0\u96be)
      Rule(60, <<OneOf(<<"{9700}{8981}{5e2e}{52a9}", "{56f0}{96be}", "{6709}{56f0}{96be}">>)>>),
      \* line 57: (teach me|guide me)
      Rule(50, <<OneOf(<<"teach me", "guide me">>)>>),
      \* line 58: (\u5e2e\u6211|\u6559\u6211)
      Rule(50, <<OneOf(<<"{5e2e}{6211}", "{6559}{6211}">>)>>)
    >>],
    [intent |-> "task_execution", rules |-> <<
      \* line 61: \b(execute|perform|carry out)\b.*\b(task|action|job)\b
      Rule(70, <<WB, OneOf(<<"execute", "perform", "carry out">>), WB, Rep(0, Unbounded, ANY), WB, OneOf(<<"task", "action", "job">>), WB>>),
      \* line 62: \b(do|run|start|launch)\b
      Rule(40, <<WB, OneOf(<<"do", "run", "start", "launch">>), WB>>),
      \* line 63: \b(open|close).*\b(browser|application|app|program|window)\b
      Rule(70, <<WB, OneOf(<<"open", "close">>), Rep(0, Unbounded, ANY), WB, OneOf(<<"browser", "application", "app", "program", "window">>), WB>>),
      \* line 64: (\u5b8c\u6210|\u6267\u884c|\u8fd0\u884c|\u542f\u52a8|\u6253\u5f00)
      Rule(50, <<OneOf(<<"{5b8c}{6210}", "{6267}{884c}", "{8fd0}{884c}", "{542f}{52a8}", "{6253}{5f00}">>)>>),
      \* line 65: ^(please |\u5e2e\u6211 )?(do|execute|run)
      Rule(60, <<BOL, Rep(0, 1, OneOf(<<"please ", "{5e2e}{6211} ">>)), OneOf(<<"do", "execute", "run">>)>>),
      \* line 66: ^(\u5b8c\u6210|\u6267\u884c)
      Rule(60, <<BOL, OneOf(<<"{5b8c}{6210}", "{6267}{884c}">>)>>)
    >>],
    [intent |-> "information_query", rules |-> <<
      \* line 69: ^(what|when|where|who|why|how|which)\b
      Rule(60, <<BOL, OneOf(<<"what", "when", "where", "who", "why", "how", "which">>), WB>>),
      \* line 70: \b(tell me|explain|describe|define)\b
      Rule(60, <<WB, OneOf(<<"tell me", "explain", "describe", "define">>), WB>>),
      \* line 71: ^(\u4ec0\u4e48|\u4e3a\u4ec0\u4e48|\u5982\u4f55|\u54ea\u91cc|\u4e3a\u4f55|\u600e\u4e48)
      Rule(60, <<BOL, OneOf(<<"{4ec0}{4e48}", "{4e3a}{4ec0}{4e48}", "{5982}{4f55}", "{54ea}{91cc}", "{4e3a}{4f55}", "{600e}{4e48}">>)>>),
      \* line 72: (\u544a\u8bc9\u6211|\u89e3\u91ca|\u8bf4\u660e|\u5b9a\u4e49)
      Rule(60, <<OneOf(<<"{544a}{8bc9}{6211}", "{89e3}{91ca}", "{8bf4}{660e}", "{5b9a}{4e49}">>)>>),
      \* line 73: (\u67e5\u8be2|\u8be2\u95ee|\u4e86\u89e3|\u77e5\u9053)
      Rule(50, <<OneOf(<<"{67e5}{8be2}", "{8be2}{95ee}", "{4e86}{89e3}", "{77e5}{9053}">>)>>)
    >>],
    [intent |-> "automation_request", rules |-> <<
      \* line 76: \b(automate|automatic|automatically)\b
      Rule(70, <<WB, OneOf(<<"automate", "automatic", "automatically">>), WB>>),
      \* line 77: \b(schedule|repeat|batch|recurring)\b
      Rule(60, <<WB, OneOf(<<"schedule", "repeat", "batch", "recurring">>), WB>>),
      \* line 78: \b(set up|setup).*\b(automation|automatic)\b
      Rule(80, <<WB, OneOf(<<"set up", "setup">>), Rep(0, Unbounded, ANY), WB, OneOf(<<"automation", "automatic">>), WB>>),
      \* line 79: (\u81ea\u52a8\u5316|\u81ea\u52a8|\u5b9a\u65f6|\u6279\u91cf)
      Rule(70, <<OneOf(<<"{81ea}{52a8}{5316}", "{81ea}{52a8}", "{5b9a}{65f6}", "{6279}{91cf}">>)>>),
      \* line 80: (\u91cd\u590d|\u5faa\u73af|\u5b9a\u671f)
      Rule(50, <<OneOf(<<"{91cd}{590d}", "{5faa}{73af}", "{5b9a}{671f}">>)>>),
      \* line 81: (every|\u6bcf|\u6bcf\u5929|\u6bcf\u5468|daily|weekly)
      Rule(60, <<OneOf(<<"every", "{6bcf}", "{6bcf}{5929}", "{6bcf}{5468}", "daily", "weekly">>)>>)
    >>],
    [intent |-> "file_operation", rules |-> <<
      \* line 84: \b(file|folder|directory)\b.*\b(save|load|delete|move|copy|rename)\b
      Rule(70, <<WB, OneOf(<<"file", "folder", "directory">>), WB, Rep(0, Unbounded, ANY), WB, OneOf(<<"save", "load", "delete", "move", "copy", "rename">>), WB>>),
      \* line 85: \b(create|make|new)\b.*\b(file|folder)\b
      Rule(70, <<WB, OneOf(<<"create", "make", "new">>), WB, Rep(0, Unbounded, ANY), WB, OneOf(<<"file", "folder">>), WB>>),
      \* line 86: (\u6587\u4ef6|\u6587\u4ef6\u5939|\u76ee\u5f55)
      Rule(50, <<OneOf(<<"{6587}{4ef6}", "{6587}{4ef6}{5939}", "{76ee}{5f55}">>)>>),
      \* line 87: (\u4fdd\u5b58|\u5220\u9664|\u79fb\u52a8|\u590d\u5236|\u91cd\u547d\u540d|\u521b\u5efa)
      Rule(50, <<OneOf(<<"{4fdd}{5b58}", "{5220}{9664}", "{79fb}{52a8}", "{590d}{5236}", "{91cd}{547d}{540d}", "{521b}{5efa}">>)>>)
    >>],
    [intent |-> "web_search", rules |-> <<
      \* line 90: \b(google|bing|search engine)\b
      Rule(70, <<WB, OneOf(<<"google", "bing", "search engine">>), WB>>),
      \* line 91: \b(find online|look up online|search the web)\b
      Rule(70, <<WB, OneOf(<<"find online", "look up online", "search the web">>), WB>>),
      \* line 92: \b(look up|lookup)\b
      Rule(60, <<WB, OneOf(<<"look up", "lookup">>), WB>>),
      \* line 93: \b(browse|surf)\b
      Rule(40, <<WB, OneOf(<<"browse", "surf">>), WB>>),
      \* line 94: (\u5728\u7ebf\u641c\u7d22|\u7f51\u4e0a\u67e5\u627e|\u4e0a\u7f51\u641c)
      Rule(70, <<OneOf(<<"{5728}{7ebf}{641c}{7d22}", "{7f51}{4e0a}{67e5}{627e}", "{4e0a}{7f51}{641c}">>)>>)
    >>],
    [intent |-> "code_assistance", rules |-> <<
      \* line 97: \b(code|program|script)\b.*\b(debug|fix|error|bug)\b
      Rule(80, <<WB, OneOf(<<"code", "program", "script">>), WB, Rep(0, Unbounded, ANY), WB, OneOf(<<"debug", "fix", "error", "bug">>), WB>>),
      \* line 98: \b(debug|fix)\b.*\b(code|program|script|function|error|bug)\b
      Rule(80, <<WB, OneOf(<<"debug", "fix">>), WB, Rep(0, Unbounded, ANY), WB, OneOf(<<"code", "program", "script", "function", "error", "bug">>), WB>>),
      \* line 99: ^(debug|fix)\b
      Rule(60, <<BOL, OneOf(<<"debug", "fix">>), WB>>),
      \* line 100: \b(function|class|variable|method|algorithm)\b
      Rule(60, <<WB, OneOf(<<"function", "class", "variable", "method", "algorithm">>), WB>>),
      \* line 101: \b(compile|syntax|runtime)\b.*\b(error|issue)\b
      Rule(70, <<WB, OneOf(<<"compile", "syntax", "runtime">>), WB, Rep(0, Unbounded, ANY), WB, OneOf(<<"error", "issue">>), WB>>),
      \* line 102: (\u4ee3\u7801|\u7a0b\u5e8f|\u811a\u672c)
      Rule(50, <<OneOf(<<"{4ee3}{7801}", "{7a0b}{5e8f}", "{811a}{672c}">>)>>),
      \* line 103: (\u8c03\u8bd5|\u4fee\u590d|\u9519\u8bef|\u51fd\u6570|\u7c7b|\u53d8\u91cf)
      Rule(60, <<OneOf(<<"{8c03}{8bd5}", "{4fee}{590d}", "{9519}{8bef}", "{51fd}{6570}", "{7c7b}", "{53d8}{91cf}">>)>>)
    >>],
    [intent |-> "writing_assistance", rules |-> <<
      \* line 106: \b(write|draft|compose)\b.*\b(document|article|essay|email)\b
      Rule(70, <<WB, OneOf(<<"write", "draft", "compose">>), WB, Rep(0, Unbounded, ANY), WB, OneOf(<<"document", "article", "essay", "email">>), WB>>),
      \* line 107: \b(edit|proofread|review|revise)\b
      Rule(60, <<WB, OneOf(<<"edit", "proofread", "review", "revise">>), WB>>),
      \* line 108: \b(grammar|spelling|punctuation)\b
      Rule(60, <<WB, OneOf(<<"grammar", "spelling", "punctuation">>), WB>>),
      \* line 109: (\u5199\u4f5c|\u64b0\u5199|\u7f16\u5199)
      Rule(60, <<OneOf(<<"{5199}{4f5c}", "{64b0}{5199}", "{7f16}{5199}">>)>>),
      \* line 110: (\u7f16\u8f91|\u4fee\u6539|\u6821\u5bf9|\u8bed\u6cd5)
      Rule(60, <<OneOf(<<"{7f16}{8f91}", "{4fee}{6539}", "{6821}{5bf9}", "{8bed}{6cd5}">>)>>)
    >>],
    [intent |-> "system_command", rules |-> <<
      \* line 113: \b(shutdown|restart|reboot)\b.*\b(computer|system|pc)\b
      Rule(80, <<WB, OneOf(<<"shutdown", "restart", "reboot">>), WB, Rep(0, Unbounded, ANY), WB, OneOf(<<"computer", "system", "pc">>), WB>>),
      \* line 114: \b(close|quit|exit|kill)\b.*\b(application|app|program)\b
      Rule(70, <<WB, OneOf(<<"close", "quit", "exit", "kill">>), WB, Rep(0, Unbounded, ANY), WB, OneOf(<<"application", "app", "program">>), WB>>),
      \* line 115: \b(minimize|maximize|restore)\b.*\b(window)\b
      Rule(70, <<WB, OneOf(<<"minimize", "maximize", "restore">>), WB, Rep(0, Unbounded, ANY), WB, OneOf(<<"window">>), WB>>),
      \* line 116: (\u5173\u95ed|\u9000\u51fa|\u7ed3\u675f).*(\u7a0b\u5e8f|\u5e94\u7528|\u7a97\u53e3)
      Rule(70, <<OneOf(<<"{5173}{95ed}", "{9000}{51fa}", "{7ed3}{675f}">>), Rep(0, Unbounded, ANY), OneOf(<<"{7a0b}{5e8f}", "{5e94}{7528}", "{7a97}{53e3}">>)>>),
      \* line 117: (\u91cd\u542f|\u5173\u673a|\u6700\u5c0f\u5316|\u6700\u5927\u5316)
      Rule(60, <<OneOf(<<"{91cd}{542f}", "{5173}{673a}", "{6700}{5c0f}{5316}", "{6700}{5927}{5316}">>)>>)
    >>],
    [intent |-> "search", rules |-> <<
      \* line 121: ^(search|find|lookup|query)\b
      Rule(70, <<BOL, OneOf(<<"search", "find", "lookup", "query">>), WB>>),
      \* line 122: \b(search for|find me|lookup)\b
      Rule(70, <<WB, OneOf(<<"search for", "find me", "lookup">>), WB>>),
      \* line 123: ^(\u641c\u7d22|\u67e5\u8be2|\u641c|\u627e)
      Rule(80, <<BOL, OneOf(<<"{641c}{7d22}", "{67e5}{8be2}", "{641c}", "{627e}">>)>>),
      \* line 124: (\u641c\u7d22|\u67e5\u627e|\u68c0\u7d22).*(\u6559\u7a0b|\u8d44\u6599|\u4fe1\u606f|\u5185\u5bb9)
      Rule(80, <<OneOf(<<"{641c}{7d22}", "{67e5}{627e}", "{68c0}{7d22}">>), Rep(0, Unbounded, ANY), OneOf(<<"{6559}{7a0b}", "{8d44}{6599}", "{4fe1}{606f}", "{5185}{5bb9}">>)>>),
      \* line 125: (search).{1,20}(tutorial|guide|info|how to)
      Rule(80, <<OneOf(<<"search">>), Rep(1, 20, ANY), OneOf(<<"tutorial", "guide", "info", "how to">>)>>),
      \* line 126: (\u641c\u7d22|\u641c|\u67e5\u627e).{1,20}(\u6559\u7a0b|\u6307\u5357|\u65b9\u6cd5)
      Rule(80, <<OneOf(<<"{641c}{7d22}", "{641c}", "{67e5}{627e}">>), Rep(1, 20, ANY), OneOf(<<"{6559}{7a0b}", "{6307}{5357}", "{65b9}{6cd5}">>)>>)
    >>],
    [intent |-> "automation", rules |-> <<
      \* line 129: ^(automate|\u81ea\u52a8\u5316)
      Rule(90, <<BOL, OneOf(<<"automate", "{81ea}{52a8}{5316}">>)>>),
      \* line 130: (\u5e2e\u6211\u81ea\u52a8|\u81ea\u52a8\u6267\u884c|\u81ea\u52a8\u5b8c\u6210)
      Rule(90, <<OneOf(<<"{5e2e}{6211}{81ea}{52a8}", "{81ea}{52a8}{6267}{884c}", "{81ea}{52a8}{5b8c}{6210}">>)>>),
      \* line 131: \b(automate this|make it automatic)\b
      Rule(80, <<WB, OneOf(<<"automate this", "make it automatic">>), WB>>),
      \* line 132: (\u81ea\u52a8\u5316.*\u4efb\u52a1|\u81ea\u52a8.*\u5904\u7406)
      Rule(80, <<Grp(<<Alt(<<<<Lit("{81ea}{52a8}{5316}"), Rep(0, Unbounded, ANY), Lit("{4efb}{52a1}")>>, <<Lit("{81ea}{52a8}"), Rep(0, Unbounded, ANY), Lit("{5904}{7406}")>>>>)>>)>>),
      \* line 133: (\u6279\u5904\u7406|\u6279\u91cf\u5904\u7406|\u81ea\u52a8\u8fd0\u884c)
      Rule(70, <<OneOf(<<"{6279}{5904}{7406}", "{6279}{91cf}{5904}{7406}", "{81ea}{52a8}{8fd0}{884c}">>)>>)
    >>],
    [intent |-> "memory", rules |-> <<
      \* line 136: ^(remember|\u8bb0\u4f4f|\u8bb0\u5f55)
      Rule(90, <<BOL, OneOf(<<"remember", "{8bb0}{4f4f}", "{8bb0}{5f55}">>)>>),
      \* line 137: \b(save to memory|store this)\b
      Rule(80, <<WB, OneOf(<<"save to memory", "store this">>), WB>>),
      \* line 138: (\u8bb0\u4e0b\u6765|\u8bb0\u4e00\u4e0b)
      Rule(80, <<OneOf(<<"{8bb0}{4e0b}{6765}", "{8bb0}{4e00}{4e0b}">>)>>),
      \* line 139: (\u8bb0\u4f4f|\u8bb0\u5f55|\u4fdd\u5b58|\u50a8\u5b58).*(\u8fd9\u4e2a|\u8fd9\u4ef6\u4e8b|\u6b64\u4e8b|\u4fe1\u606f)
      Rule(90, <<OneOf(<<"{8bb0}{4f4f}", "{8bb0}{5f55}", "{4fdd}{5b58}", "{50a8}{5b58}">>), Rep(0, Unbounded, ANY), OneOf(<<"{8fd9}{4e2a}", "{8fd9}{4ef6}{4e8b}", "{6b64}{4e8b}", "{4fe1}{606f}">>)>>),
      \* line 140: \b(memorize|keep in mind)\b
      Rule(80, <<WB, OneOf(<<"memorize", "keep in mind">>), WB>>),
      \* line 141: (\u522b\u5fd8\u4e86|\u4e0d\u8981\u5fd8\u8bb0)
      Rule(80, <<OneOf(<<"{522b}{5fd8}{4e86}", "{4e0d}{8981}{5fd8}{8bb0}">>)>>),
      \* line 142: \b(recall|retrieve)\b
      Rule(70, <<WB, OneOf(<<"recall", "retrieve">>), WB>>),
      \* line 143: (\u60f3\u8d77|\u56de\u5fc6)
      Rule(70, <<OneOf(<<"{60f3}{8d77}", "{56de}{5fc6}">>)>>),
      \* line 144: \b(do you remember)\b
      Rule(80, <<WB, OneOf(<<"do you remember">>), WB>>),
      \* line 145: (\u4f60\u8bb0\u5f97|\u8fd8\u8bb0\u5f97)
      Rule(80, <<OneOf(<<"{4f60}{8bb0}{5f97}", "{8fd8}{8bb0}{5f97}">>)>>)
    >>],
    [intent |-> "screenshot", rules |-> <<
      \* line 148: ^(screenshot|capture|\u622a\u56fe|\u622a\u5c4f)
      Rule(95, <<BOL, OneOf(<<"screenshot", "capture", "{622a}{56fe}", "{622a}{5c4f}">>)>>),
      \* line 149: \b(take a screenshot|capture screen)\b
      Rule(90, <<WB, OneOf(<<"take a screenshot", "capture screen">>), WB>>),
      \* line 150: (\u622a\u56fe|\u622a\u5c4f|\u6293\u56fe|\u5c4f\u5e55\u622a\u56fe)
      Rule(95, <<OneOf(<<"{622a}{56fe}", "{622a}{5c4f}", "{6293}{56fe}", "{5c4f}{5e55}{622a}{56fe}">>)>>),
      \* line 151: \b(capture this|save screen)\b
      Rule(80, <<WB, OneOf(<<"capture this", "save screen">>), WB>>),
      \* line 152: (\u4fdd\u5b58\u5c4f\u5e55)
      Rule(80, <<OneOf(<<"{4fdd}{5b58}{5c4f}{5e55}">>)>>),
      \* line 153: \b(screen capture|print screen)\b
      Rule(80, <<WB, OneOf(<<"screen capture", "print screen">>), WB>>)
    >>],
    [intent |-> "open_url", rules |-> <<
      \* line 156: https?://[^\s]+
      Rule(95, <<Lit("http"), Rep(0, 1, Lit("s")), Lit("://"), Rep(1, Unbounded, Class(TRUE, "", {"space"}))>>),
      \* line 157: \b(open|go to|visit|navigate to)\b.*(http|www\.|\.com|\.org|\.net)
      Rule(90, <<WB, OneOf(<<"open", "go to", "visit", "navigate to">>), WB, Rep(0, Unbounded, ANY), OneOf(<<"http", "www.", ".com", ".org", ".net">>)>>),
      \* line 158: (\u6253\u5f00|\u8bbf\u95ee|\u8fdb\u5165|\u6d4f\u89c8).*(\u7f51\u5740|\u7f51\u7ad9|\u94fe\u63a5)
      Rule(80, <<OneOf(<<"{6253}{5f00}", "{8bbf}{95ee}", "{8fdb}{5165}", "{6d4f}{89c8}">>), Rep(0, Unbounded, ANY), OneOf(<<"{7f51}{5740}", "{7f51}{7ad9}", "{94fe}{63a5}">>)>>),
      \* line 159: ^(\u6253\u5f00|open)\s*(www\.|http)
      Rule(90, <<BOL, OneOf(<<"{6253}{5f00}", "open">>), Rep(0, Unbounded, Class(FALSE, "", {"space"})), OneOf(<<"www.", "http">>)>>),
      \* line 160: (\.com|\.org|\.net|\.cn|\.io)\b
      Rule(60, <<OneOf(<<".com", ".org", ".net", ".cn", ".io">>), WB>>)
    >>],
    [intent |-> "open_file", rules |-> <<
      \* line 163: \b(open|edit|view)\b.*\b(file|document)\b
      Rule(80, <<WB, OneOf(<<"open", "edit", "view">>), WB, Rep(0, Unbounded, ANY), WB, OneOf(<<"file", "document">>), WB>>),
      \* line 164: (\u6253\u5f00|\u7f16\u8f91|\u67e5\u770b).*(\u6587\u4ef6|\u6587\u6863)
      Rule(80, <<OneOf(<<"{6253}{5f00}", "{7f16}{8f91}", "{67e5}{770b}">>), Rep(0, Unbounded, ANY), OneOf(<<"{6587}{4ef6}", "{6587}{6863}">>)>>),
      \* line 165: \b(open|edit|view)\b.*\.(py|txt|doc|pdf|jpg|png|xlsx|json|xml|cpp|java|js|html|css)
      Rule(90, <<WB, OneOf(<<"open", "edit", "view">>), WB, Rep(0, Unbounded, ANY), Lit("."), OneOf(<<"py", "txt", "doc", "pdf", "jpg", "png", "xlsx", "json", "xml", "cpp", "java", "js", "html", "css">>)>>),
      \* line 166: (\u6253\u5f00).*\.(py|txt|doc|pdf|jpg|png|xlsx|json|xml|cpp|java|js|html|css)
      Rule(90, <<OneOf(<<"{6253}{5f00}">>), Rep(0, Unbounded, ANY), Lit("."), OneOf(<<"py", "txt", "doc", "pdf", "jpg", "png", "xlsx", "json", "xml", "cpp", "java", "js", "html", "css">>)>>),
      \* line 167: "[^"]*\.(py|txt|doc|pdf|jpg|png|xlsx|json|xml|cpp|java|js|html|css)"
      Rule(90, <<Lit("\""), Rep(0, Unbounded, Class(TRUE, "\"", {})), Lit("."), OneOf(<<"py", "txt", "doc", "pdf", "jpg", "png", "xlsx", "json", "xml", "cpp", "java", "js", "html", "css">>), Lit("\"")>>),
      \* line 168: '[^']*\.(py|txt|doc|pdf|jpg|png|xlsx|json|xml|cpp|java|js|html|css)'
      Rule(90, <<Lit("'"), Rep(0, Unbounded, Class(TRUE, "'", {})), Lit("."), OneOf(<<"py", "txt", "doc", "pdf", "jpg", "png", "xlsx", "json", "xml", "cpp", "java", "js", "html", "css">>), Lit("'")>>)
    >>],
    [intent |-> "casual_chat", rules |-> <<
      \* line 172: ^(hi|hello|hey|\u54c8\u55bd)
      Rule(80, <<BOL, OneOf(<<"hi", "hello", "hey", "{54c8}{55bd}">>)>>),
      \* line 173: ^(\u4f60\u597d|\u55e8)
      Rule(80, <<BOL, OneOf(<<"{4f60}{597d}", "{55e8}">>)>>),
      \* line 174: ^(how are you|how's it going|what's up)
      Rule(80, <<BOL, OneOf(<<"how are you", "how's it going", "what's up">>)>>),
      \* line 175: ^(\u4f60\u597d\u5417|\u600e\u4e48\u6837)
      Rule(80, <<BOL, OneOf(<<"{4f60}{597d}{5417}", "{600e}{4e48}{6837}">>)>>),
      \* line 176: \b(nice|good|great|cool|awesome)\b.*\b(weather|day)\b
      Rule(70, <<WB, OneOf(<<"nice", "good", "great", "cool", "awesome">>), WB, Rep(0, Unbounded, ANY), WB, OneOf(<<"weather", "day">>), WB>>),
      \* line 177: (\u4e0d\u9519|\u5f88\u597d|\u68d2|\u597d).*\u5929\u6c14
      Rule(70, <<OneOf(<<"{4e0d}{9519}", "{5f88}{597d}", "{68d2}", "{597d}">>), Rep(0, Unbounded, ANY), Lit("{5929}{6c14}")>>),
      \* line 178: ^(thanks|thank you)
      Rule(70, <<BOL, OneOf(<<"thanks", "thank you">>)>>),
      \* line 179: ^(\u8c22\u8c22|\u611f\u8c22)
      Rule(70, <<BOL, OneOf(<<"{8c22}{8c22}", "{611f}{8c22}">>)>>),
      \* line 180: ^(bye|goodbye|see you)
      Rule(70, <<BOL, OneOf(<<"bye", "goodbye", "see you">>)>>),
      \* line 181: ^(\u518d\u89c1|\u62dc\u62dc)
      Rule(70, <<BOL, OneOf(<<"{518d}{89c1}", "{62dc}{62dc}">>)>>),
      \* line 182: (\u597d\u7684|ok|okay|fine|sure|alright|\u884c|\u53ef\u4ee5)
      Rule(40, <<OneOf(<<"{597d}{7684}", "ok", "okay", "fine", "sure", "alright", "{884c}", "{53ef}{4ee5}">>)>>)
    >>]
  >>

\* IntentRecognizer.ENTITY_PATTERNS in the dict's order.  re is the pattern;
\* re.findall reports the text of the pattern's group when it has one, which
\* starts lead characters into the match and ends trail characters before
\* its end.
ENTITY_PATTERNS ==
  <<
    \* line 188: ["\']([^"\']+\.[a-zA-Z0-9]+)["\']
    [kind |-> "file_path", lead |-> 1, trail |-> 1,
     re |-> <<Class(FALSE, "\"'", {}), Grp(<<Rep(1, Unbounded, Class(TRUE, "\"'", {})), Lit("."), Rep(1, Unbounded, Class(FALSE, "abcdefghijklmnopqrstuvwxyzABCDEFGHIJKLMNOPQRSTUVWXYZ0123456789", {}))>>), Class(FALSE, "\"'", {})>>],
    \* line 189: https?://[^\s]+
    [kind |-> "url", lead |-> 0, trail |-> 0,
     re |-> <<Lit("http"), Rep(0, 1, Lit("s")), Lit("://"), Rep(1, Unbounded, Class(TRUE, "", {"space"}))>>],
    \* line 190: \b[A-Za-z0-9._%+-]+@[A-Za-z0-9.-]+\.[A-Z|a-z]{2,}\b
    [kind |-> "email", lead |-> 0, trail |-> 0,
     re |-> <<WB, Rep(1, Unbounded, Class(FALSE, "ABCDEFGHIJKLMNOPQRSTUVWXYZabcdefghijklmnopqrstuvwxyz0123456789._%+-", {})), Lit("@"), Rep(1, Unbounded, Class(FALSE, "ABCDEFGHIJKLMNOPQRSTUVWXYZabcdefghijklmnopqrstuvwxyz0123456789.-", {})), Lit("."), Rep(2, Unbounded, Class(FALSE, "ABCDEFGHIJKLMNOPQRSTUVWXYZ|abcdefghijklmnopqrstuvwxyz", {})), WB>>],
    \* line 191: \b\d+\b
    [kind |-> "number", lead |-> 0, trail |-> 0,
     re |-> <<WB, Rep(1, Unbounded, Class(FALSE, "", {"digit"})), WB>>],
    \* line 192: \b\d{1,2}:\d{2}\b
    [kind |-> "time", lead |-> 0, trail |-> 0,
     re |-> <<WB, Rep(1, 2, Class(FALSE, "", {"digit"})), Lit(":"), Rep(2, 2, Class(FALSE, "", {"digit"})), WB>>]
  >>

(***************************************************************************)
(* Optional values (None) and dicts                                        *)
(***************************************************************************)
None == [present |-> FALSE]
Some(v) == [present |-> TRUE, value |-> v]

\* Python's truth value of an Optional[str] or Optional[dict]: None, "" and
\* {} are false.
Truthy(opt) == opt.present /\ DOMAIN opt.value # {}

EmptyDict == <<>>

\* d.update(other) on dicts as functions from keys
Update(d, other) ==
  [key \in DOMAIN d \cup DOMAIN other |->
     IF key \in DOMAIN other THEN other[key] ELSE d[key]]

(***************************************************************************)
(* IntentRecognizer._extract_entities                                      *)
(***************************************************************************)
\* re.findall(pattern, text) from offset i on: the matches left to right,
\* each search starting where the last match ended; of a pattern with one
\* group the group's text, which lead characters into the match and ends
\* trail characters before its end.
RECURSIVE FindAllFrom(_, _, _)
FindAllFrom(p, text, i) ==
  LET m == SearchFrom(p.re, text, i)
  IN IF ~m.found THEN <<>>
     ELSE <<SubSeq(text, m.start + 1 + p.lead, m.end - p.trail)>>
            \o FindAllFrom(p, text, IF m.end > m.start THEN m.end ELSE m.end + 1)

FindAll(p, text) == FindAllFrom(p, text, 0)

\* One pass of the loop: re.findall of one entity pattern.
FindKind(p, text) == [kind |-> p.kind, matches |-> FindAll(p, text)]

\* A faulty variant of EntitiesOf: every kind is a key, with or without
\* matches.
EntitiesOfAll(found) ==
  [key \in {found[e].kind : e \in DOMAIN found} |->
     found[CHOOSE e \in DOMAIN found : found[e].kind = key].matches]

\* entities[entity_type] = matches, for the kinds whose matches are not empty.
EntitiesOf(found) ==
  [key \in {found[e].kind : e \in {f \in DOMAIN found : found[f].matches # <<>>}} |->
     found[CHOOSE e \in DOMAIN found : found[e].kind = key].matches]

\* A faulty variant of ExtractEntities: the entities are extracted from the
\* lowercased copy of the text.
ExtractEntitiesLowered(text) ==
  EntitiesOf([e \in 1..Len(ENTITY_PATTERNS) |-> FindKind(ENTITY_PATTERNS[e], Lower(text))])

\* _extract_entities(text)
ExtractEntities(text) ==
  EntitiesOf([e \in 1..Len(ENTITY_PATTERNS) |-> FindKind(ENTITY_PATTERNS[e], text)])

(***************************************************************************)
(* IntentRecognizer._generate_suggested_action                             *)
(***************************************************************************)
Suggestions ==
  [help_request |-> "I can help you with that. What specifically do you need assistance with?",
   task_execution |-> "I'll help you execute that task. Let me prepare the necessary steps.",
   information_query |-> "Let me search for that information for you.",
   automation_request |-> "I can set up automation for that. Let me configure it.",
   file_operation |-> "I'll help you with that file operation.",
   web_search |-> "I'll search for that online.",
   code_assistance |-> "I can help with your code. Let me analyze it.",
   writing_assistance |-> "I'll help you with your writing.",
   system_command |-> "I'll execute that system command.",
   casual_chat |-> "I'm here to chat! What's on your mind?",
   search |-> "I'll search for that information right away.",
   automation |-> "I can automate that task for you. Let me set it up.",
   memory |-> "I'll remember that for you.",
   screenshot |-> "Taking a screenshot now...",
   open_url |-> "Opening the URL for you...",
   open_file |-> "Opening the file..."]

\* A faulty variant of GenerateSuggestedAction: the table is not consulted.
GenerateGenericAction(intent_type) == "How can I help you?"

GenerateSuggestedAction(intent_type) ==
  IF intent_type \in DOMAIN Suggestions THEN Suggestions[intent_type]
  ELSE "How can I help you?"

(***************************************************************************)
(* IntentRecognizer.recognize_intent                                       *)
(***************************************************************************)
LongMatch == 10
LongMatchBonus == 5
MultiMatchStep == 10
MultiMatchCap == 30
MaxScore == 100
CasualThreshold == 30
OtherThreshold == 40
FallbackConfidence == 50

Min(a, b) == IF a < b THEN a ELSE b

\* pattern.search(user_input_lower) of every rule of one category.
SearchRules(rules, lowered) ==
  [j \in 1..Len(rules) |-> Search(rules[j].re, lowered)]

\* The searches of every category, in the catalog's order.
Matches(lowered) ==
  [c \in 1..Len(INTENT_PATTERNS) |-> SearchRules(INTENT_PATTERNS[c].rules, lowered)]

\* A faulty variant of ScoreRules: no bonus for a long match.
RECURSIVE ScoreRulesNoLongBonus(_, _, _, _, _)
ScoreRulesNoLongBonus(rules, found, j, score, match_count) ==
  IF j > Len(rules) THEN [score |-> score, match_count |-> match_count]
  ELSE IF found[j].found
       THEN ScoreRulesNoLongBonus(rules, found, j + 1, score + rules[j].weight,
                                  match_count + 1)
       ELSE ScoreRulesNoLongBonus(rules, found, j + 1, score, match_count)

\* A faulty variant of ScoreRules: a matching rule is counted twice.
RECURSIVE ScoreRulesCountedTwice(_, _, _, _, _)
ScoreRulesCountedTwice(rules, found, j, score, match_count) ==
  IF j > Len(rules) THEN [score |-> score, match_count |-> match_count]
  ELSE LET m == found[j]
       IN IF m.found
          THEN ScoreRulesCountedTwice(rules, found, j + 1,
                 score + 2 * (rules[j].weight
                              + (IF m.end - m.start > LongMatch THEN LongMatchBonus ELSE 0)),
                 match_count + 2)
          ELSE ScoreRulesCountedTwice(rules, found, j + 1, score, match_count)

\* The inner loop over one category's rules, from rule j on, with the
\* running score and match_count; found[j] is rule j's search result.
RECURSIVE ScoreRules(_, _, _, _, _)
ScoreRules(rules, found, j, score, match_count) ==
  IF j > Len(rules) THEN [score |-> score, match_count |-> match_count]
  ELSE LET m == found[j]
       IN IF m.found
          THEN ScoreRules(rules, found, j + 1,
                          score + rules[j].weight
                            + (IF m.end - m.start > LongMatch THEN LongMatchBonus ELSE 0),
                          match_count + 1)
          ELSE ScoreRules(rules, found, j + 1, score, match_count)

\* The bonus for multiple pattern matches.
MultiMatchBonus(match_count) ==
  IF match_count > 1
  THEN Min((match_count - 1) * MultiMatchStep, MultiMatchCap)
  ELSE 0

\* A faulty variant of CategoryScore: the score is not clamped.
CategoryScoreUnclamped(category, found) ==
  LET r == ScoreRules(category.rules, found, 1, 0, 0)
  IN [intent |-> category.intent,
      score |-> r.score + MultiMatchBonus(r.match_count),
      match_count |-> r.match_count]

\* A faulty variant of CategoryScore: the score is the mean weight of the
\* matching rules, without bonuses.
CategoryScoreAveraged(category, found) ==
  LET r == ScoreRulesNoLongBonus(category.rules, found, 1, 0, 0)
  IN [intent |-> category.intent,
      score |-> IF r.match_count = 0 THEN 0 ELSE Min(r.score \div r.match_count, MaxScore),
      match_count |-> r.match_count]

\* One pass of the outer loop: intent_scores[t] and intent_match_counts[t]
\* of one category, found[j] being the search result of its rule j.
CategoryScore(category, found) ==
  LET r == ScoreRules(category.rules, found, 1, 0, 0)
  IN [intent |-> category.intent,
      score |-> Min(r.score + MultiMatchBonus(r.match_count), MaxScore),
      match_count |-> r.match_count]

\* intent_scores.items() with the match counts, in the catalog's order.
IntentScores(matches) ==
  [c \in 1..Len(INTENT_PATTERNS) |-> CategoryScore(INTENT_PATTERNS[c], matches[c])]

\* A faulty variant of KeyLess: the score alone is the sort key.
KeyLessScoreOnly(a, b) == a.score < b.score

\* The sort key (score, match_count), compared as tuples.
KeyLess(a, b) ==
  \/ a.score < b.score
  \/ (a.score = b.score /\ a.match_count < b.match_count)

\* sorted(..., reverse=True) is stable: an item goes behind every item whose
\* key is not less than its own.
RECURSIVE InsertSorted(_, _)
InsertSorted(item, sorted) ==
  IF sorted = <<>> THEN <<item>>
  ELSE IF KeyLess(Head(sorted), item) THEN <<item>> \o sorted
       ELSE <<Head(sorted)>> \o InsertSorted(item, Tail(sorted))

RECURSIVE SortedFrom(_, _, _)
SortedFrom(items, j, sorted) ==
  IF j > Len(items) THEN sorted
  ELSE SortedFrom(items, j + 1, InsertSorted(items[j], sorted))

\* A faulty variant of SortedIntents: the items are taken in the reverse
\* order, so that among equal keys the last one of the catalog comes first.
SortedIntentsLastFirst(intent_scores) ==
  SortedFrom([j \in DOMAIN intent_scores |->
                intent_scores[Len(intent_scores) + 1 - j]], 1, <<>>)

SortedIntents(intent_scores) == SortedFrom(intent_scores, 1, <<>>)

\* A faulty variant of Threshold: any score is accepted.
ThresholdNone(intent_type) == 0

Threshold(intent_type) ==
  IF intent_type = "casual_chat" THEN CasualThreshold ELSE OtherThreshold

\* A faulty variant of SelectIntent: the fallback reports the score computed
\* for casual_chat instead of the fixed confidence.
SelectIntentComputed(sorted_intents) ==
  IF sorted_intents # <<>> /\ sorted_intents[1].score >= Threshold(sorted_intents[1].intent)
  THEN [intent_type |-> sorted_intents[1].intent, confidence |-> sorted_intents[1].score]
  ELSE [intent_type |-> "casual_chat",
        confidence |-> (CHOOSE e \in {sorted_intents[i] : i \in DOMAIN sorted_intents} :
                          e.intent = "casual_chat").score]

\* The (intent_type, confidence) the threshold logic selects.
SelectIntent(sorted_intents) ==
  IF sorted_intents # <<>>
  THEN LET best == sorted_intents[1]
       IN IF best.score >= Threshold(best.intent)
          THEN [intent_type |-> best.intent, confidence |-> best.score]
          ELSE [intent_type |-> "casual_chat", confidence |-> FallbackConfidence]
  ELSE [intent_type |-> "casual_chat", confidence |-> FallbackConfidence]

Intent(intent_type, confidence, entities, raw_input, suggested_action) ==
  [intent_type |-> intent_type, confidence |-> confidence, entities |-> entities,
   raw_input |-> raw_input, suggested_action |-> suggested_action]

(***************************************************************************)
(* ScreenActivityAnalyzer                                                  *)
(***************************************************************************)
MaxHistory == 50
MinHistory == 3
RecentWindow == 5

\* keyword in title
Contains(s, keyword) ==
  \E i \in 1..(Len(s) - Len(keyword) + 1) : SubSeq(s, i, i + Len(keyword) - 1) = keyword

AnyKeyword(lowered, keywords) ==
  \E j \in 1..Len(keywords) : Contains(lowered, keywords[j])

BrowserKeywords == <<Text("chrome"), Text("firefox"), Text("safari"), Text("edge")>>
IdeKeywords == <<Text("code"), Text("visual studio"), Text("pycharm"), Text("intellij")>>
WriterKeywords == <<Text("word"), Text("docs"), Text("notepad")>>
SheetKeywords == <<Text("excel"), Text("sheets"), Text("calc")>>

Analysis(activity_type, app_name) ==
  [activity_type |-> activity_type, app_name |-> app_name, context |-> EmptyDict]

\* A faulty variant of AnalyzeWindowTitle: the groups are tried in the
\* reverse order.
AnalyzeWindowTitleLastGroup(window_title) ==
  LET lowered == Lower(window_title)
  IN IF AnyKeyword(lowered, SheetKeywords) THEN Analysis("spreadsheet", "spreadsheet_app")
     ELSE IF AnyKeyword(lowered, WriterKeywords) THEN Analysis("writing", "text_editor")
     ELSE IF AnyKeyword(lowered, IdeKeywords) THEN Analysis("coding", "ide")
     ELSE IF AnyKeyword(lowered, BrowserKeywords) THEN Analysis("web_browsing", "browser")
     ELSE Analysis("unknown", "")

\* analyze_window_title(window_title)
AnalyzeWindowTitle(window_title) ==
  LET lowered == Lower(window_title)
  IN IF AnyKeyword(lowered, BrowserKeywords) THEN Analysis("web_browsing", "browser")
     ELSE IF AnyKeyword(lowered, IdeKeywords) THEN Analysis("coding", "ide")
     ELSE IF AnyKeyword(lowered, WriterKeywords) THEN Analysis("writing", "text_editor")
     ELSE IF AnyKeyword(lowered, SheetKeywords) THEN Analysis("spreadsheet", "spreadsheet_app")
     ELSE Analysis("unknown", "")

\* seq[-n:]
LastN(seq, n) ==
  IF Len(seq) <= n THEN seq ELSE SubSeq(seq, Len(seq) - n + 1, Len(seq))

\* A faulty variant of DetectPatternOf: the whole history is examined.
DetectPatternWholeHistory(history) ==
  IF Len(history) < MinHistory THEN None
  ELSE IF Cardinality({history[i].activity_type : i \in 1..Len(history)}) = 1
       THEN Some(<<"User is focused on ", history[1].activity_type>>)
       ELSE None

\* detect_pattern() on a history: the observation, or None.
DetectPatternOf(history) ==
  IF Len(history) < MinHistory THEN None
  ELSE LET recent_activities == LastN(history, RecentWindow)
           activity_types == [i \in 1..Len(recent_activities) |->
                                recent_activities[i].activity_type]
       IN IF Cardinality({activity_types[i] : i \in 1..Len(activity_types)}) = 1
          THEN Some(<<"User is focused on ", activity_types[1]>>)
          ELSE None

\* A faulty variant of AddActivityTo: the history is never trimmed.
AddActivityUntrimmed(history, activity) == Append(history, activity)

\* A faulty variant of AddActivityTo: a full history keeps its oldest records
\* and drops the new one.
AddActivityKeepFirst(history, activity) ==
  IF Len(history) >= MaxHistory THEN history ELSE Append(history, activity)

\* add_activity(activity) on a history: the history it leaves.
AddActivityTo(history, activity) ==
  LET appended == Append(history, activity)
  IN IF Len(appended) > MaxHistory THEN LastN(appended, MaxHistory) ELSE appended

(***************************************************************************)
(* The inputs of the model                                                 *)
(***************************************************************************)
\* Texts of up to MaxWords phrases joined by single spaces.
MaxWords == 2
Phrases ==
  <<"hi", "ok", "do", "{622a}{56fe}", "https://example.com", "automate this",
    "{81ea}{52a8}{5316}{4efb}{52a1}">>

RECURSIVE WordTexts(_)
WordTexts(n) ==
  IF n = 0 THEN {<<>>}
  ELSE LET shorter == WordTexts(n - 1)
       IN shorter
            \cup {Text(Phrases[p]) : p \in 1..Len(Phrases)}
            \cup {t \o <<" ">> \o Text(Phrases[p]) :
                    t \in shorter \ {<<>>}, p \in 1..Len(Phrases)}

\* Texts of up to MaxSymbols whitespace and punctuation characters.
MaxSymbols == 3
SymbolChars == {" ", "\t", "!", ".", "\""}

RECURSIVE SymbolTexts(_)
SymbolTexts(n) ==
  IF n = 0 THEN {<<>>}
  ELSE LET shorter == SymbolTexts(n - 1)
       IN shorter \cup {Append(t, c) : t \in shorter, c \in SymbolChars}

\* Inputs of the repository's tests (tests/test_intent.py) and one text or
\* more for every category and entity kind.
ExampleTexts ==
  {Text("!@#$%^&*()"), Text("Help me debug this function"), Text("Random text here"),
   Text("What is Python?"), Text("screenshot"), Text("just do it"),
   Text("Help me with this task"), Text("open the browser"),
   Text("search for python tutorial"), Text("create a new file"),
   Text("remember this"), Text("shutdown the computer"), Text("write an email"),
   Text("open \"notes.txt\""), Text("take a screenshot"),
   Text("schedule a meeting at 10:30"), Text("send mail to bob@example.com"),
   Text("fix this bug in my code"), Text("google machine learning"),
   Text("what's the weather"), Text("open https://example.com at 10:30"),
   Text("hi ok {622a}{56fe}"), Text("open \"test.py\" file"),
   Text("'x.y\"test.py\""), Text("Open \"README.md\" at https://Example.com")}

Texts == WordTexts(MaxWords) \cup SymbolTexts(MaxSymbols) \cup ExampleTexts

WindowTitles ==
  {Text("Visual Studio Code"), Text("PyCharm"), Text("Google Chrome"),
   Text("Microsoft Word"), Text("Terminal")}

\* analyze_window_title over the model's titles, each evaluated once.
AnalysisTable == [title \in WindowTitles |-> AnalyzeWindowTitle(title)]

\* The context argument of recognize_intent: absent, empty, a screen
\* context, or a caller's own field.
Contexts ==
  {None, Some(EmptyDict)}
    \cup {Some(AnalysisTable[title]) : title \in WindowTitles}
    \cup {Some([url |-> <<Text("https://caller.example")>>])}

(***************************************************************************)
(* The steps of recognize_intent over the model's texts, each evaluated    *)
(* once.                                                                   *)
(***************************************************************************)
MatchTable == [text \in Texts |-> Matches(Lower(text))]
ScoreTable == [text \in Texts |-> IntentScores(MatchTable[text])]
SortedTable == [text \in Texts |-> SortedIntents(ScoreTable[text])]
SelectedTable == [text \in Texts |-> SelectIntent(SortedTable[text])]
EntityTable == [text \in Texts |-> ExtractEntities(text)]
\* re.findall of every entity pattern, per text.
FoundTable ==
  [text \in Texts |-> [e \in 1..Len(ENTITY_PATTERNS) |-> FindKind(ENTITY_PATTERNS[e], text)]]

\* The Intent recognize_intent builds before it merges the context.
Recognized(selected, entities, user_input) ==
  Intent(selected.intent_type, selected.confidence, entities, user_input,
         Some(GenerateSuggestedAction(selected.intent_type)))

IntentTable ==
  [text \in Texts |-> Recognized(SelectedTable[text], EntityTable[text], text)]

\* A faulty variant of WithContext: on a key of both, the extracted value
\* stays.
WithContextExtractedFirst(intent, context) ==
  IF Truthy(context)
  THEN [intent EXCEPT !.entities = Update(context.value, @)]
  ELSE intent

\* if context: entities.update(context)
WithContext(intent, context) ==
  IF Truthy(context)
  THEN [intent EXCEPT !.entities = Update(@, context.value)]
  ELSE intent

\* recognize_intent(user_input, context): context is an optional dict.
RecognizeIntent(user_input, context) == WithContext(IntentTable[user_input], context)

(***************************************************************************)
(* ContextAwareIntentSystem.analyze                                        *)
(***************************************************************************)
ScreenOnlyConfidence == 30
NoInputConfidence == 0

\* A faulty variant of ScreenContext: the screen context is not collected.
ScreenContextDropped(window_title) == EmptyDict

\* The context analyze collects: the screen context of the title, if any.
ScreenContext(window_title) ==
  IF Truthy(window_title)
  THEN Update(EmptyDict, AnalysisTable[window_title.value])
  ELSE EmptyDict

\* A faulty variant of AnalyzeOn: absent text is recognized as the empty text.
AnalyzeOnAlwaysRecognized(user_input, window_title) ==
  RecognizeIntent(IF Truthy(user_input) THEN user_input.value ELSE <<>>,
                  Some(ScreenContext(window_title)))

\* The Intent analyze(user_input, window_title) returns.
AnalyzeOn(user_input, window_title) ==
  IF Truthy(user_input)
  THEN RecognizeIntent(user_input.value, Some(ScreenContext(window_title)))
  ELSE IF DOMAIN ScreenContext(window_title) # {}
  THEN Intent("unknown", ScreenOnlyConfidence, ScreenContext(window_title), <<>>,
              Some("I noticed you're working on something. Need any help?"))
  ELSE Intent("unknown", NoInputConfidence, EmptyDict, <<>>, None)

(***************************************************************************)
(* State: one ContextAwareIntentSystem and the last call made on it        *)
(***************************************************************************)
VARIABLES
  activity_history,  \* screen_analyzer.activity_history
  pc,                \* "idle", "pending" (a call drawn, not yet run) or "returned"
  input,             \* the last call: its operation and arguments
  result,            \* the value the last call returned
  added,             \* every record handed to add_activity so far, in order
  window,            \* the focused window, an index into WindowSession
  remembered,        \* one earlier analyze call without title: its text, its
                     \* answer and the history it ran on
  threads,           \* the calls of add_activity in progress on other threads:
                     \* the position and the locals of each
  compiled_patterns  \* text_recognizer.compiled_patterns

vars == <<activity_history, pc, input, result, added, window, remembered, threads,
          compiled_patterns>>

\* The compiled pattern objects of one category's rules, in order.  A
\* compiled pattern is immutable; it stands here as the place of its source
\* in INTENT_PATTERNS.
CompiledList(c) ==
  [j \in DOMAIN INTENT_PATTERNS[c].rules |->
     [pattern |-> <<c, j>>, weight |-> INTENT_PATTERNS[c].rules[j].weight]]

\* IntentRecognizer.__init__: the compiled list of every category, under the
\* category's name.
CompilePatterns ==
  [intent \in {INTENT_PATTERNS[c].intent : c \in DOMAIN INTENT_PATTERNS} |->
     CompiledList(CHOOSE c \in DOMAIN INTENT_PATTERNS : INTENT_PATTERNS[c].intent = intent)]

Call(op, user_input, window_title, context, activity) ==
  [op |-> op, user_input |-> user_input, window_title |-> window_title,
   context |-> context, activity |-> activity]

Fresh ==
  /\ activity_history = <<>>
  /\ result = None
  /\ added = <<>>
  /\ window = 1
  /\ remembered = None
  /\ threads = <<>>
  /\ compiled_patterns = CompilePatterns

\* A faulty variant of Recognize: the merge goes the other way round, the
\* entities found are written into the caller's context map.
RecognizeUpdatingContext(user_input, context) ==
  /\ result' = Some(RecognizeIntent(user_input, context))
  /\ input' = Call("recognize_intent", Some(user_input), None,
                   IF Truthy(context)
                   THEN Some(Update(context.value, EntityTable[user_input]))
                   ELSE context,
                   None)
  /\ pc' = "returned"
  /\ UNCHANGED <<activity_history, added>>

\* text_recognizer.recognize_intent(user_input, context)
Recognize(user_input, context) ==
  /\ result' = Some(RecognizeIntent(user_input, context))
  /\ input' = Call("recognize_intent", Some(user_input), None, context, None)
  /\ pc' = "returned"
  /\ UNCHANGED <<activity_history, added>>

\* A faulty variant of Analyze: a history that shows a focus raises the
\* confidence.
AnalyzeSwayed(user_input, window_title) ==
  /\ activity_history' =
       IF Truthy(window_title)
       THEN AddActivityTo(activity_history, AnalysisTable[window_title.value])
       ELSE activity_history
  /\ result' =
       Some(IF DetectPatternOf(activity_history).present
            THEN [AnalyzeOn(user_input, window_title) EXCEPT
                    !.confidence = Min(@ + 10, MaxScore)]
            ELSE AnalyzeOn(user_input, window_title))
  /\ input' = Call("analyze", user_input, window_title, None, None)
  /\ pc' = "returned"
  /\ added' = IF Truthy(window_title)
              THEN Append(added, AnalysisTable[window_title.value])
              ELSE added

\* A faulty variant of Analyze: the title is recorded only when no text is
\* supplied.
AnalyzeRecordsWithoutText(user_input, window_title) ==
  /\ activity_history' =
       IF Truthy(window_title) /\ ~Truthy(user_input)
       THEN AddActivityTo(activity_history, AnalysisTable[window_title.value])
       ELSE activity_history
  /\ result' = Some(AnalyzeOn(user_input, window_title))
  /\ input' = Call("analyze", user_input, window_title, None, None)
  /\ pc' = "returned"
  /\ added' = IF Truthy(window_title)
              THEN Append(added, AnalysisTable[window_title.value])
              ELSE added

\* analyze(user_input, window_title)
Analyze(user_input, window_title) ==
  /\ activity_history' =
       IF Truthy(window_title)
       THEN AddActivityTo(activity_history, AnalysisTable[window_title.value])
       ELSE activity_history
  /\ result' = Some(AnalyzeOn(user_input, window_title))
  /\ input' = Call("analyze", user_input, window_title, None, None)
  /\ pc' = "returned"
  /\ added' = IF Truthy(window_title)
              THEN Append(added, AnalysisTable[window_title.value])
              ELSE added

\* screen_analyzer.add_activity(activity)
AddActivity(activity) ==
  /\ activity_history' = AddActivityTo(activity_history, activity)
  /\ result' = None
  /\ input' = Call("add_activity", None, None, None, Some(activity))
  /\ pc' = "returned"
  /\ added' = Append(added, activity)

\* screen_analyzer.detect_pattern()
DetectPattern ==
  /\ result' = DetectPatternOf(activity_history)
  /\ input' = Call("detect_pattern", None, None, None, None)
  /\ pc' = "returned"
  /\ UNCHANGED <<activity_history, added>>

(***************************************************************************)
(* SpecRecognize: one call of recognize_intent or analyze on a fresh       *)
(* system, its arguments drawn from the model's inputs.                    *)
(***************************************************************************)
OptionalTexts == {None} \cup {Some(text) : text \in Texts}
OptionalTitles == {None, Some(<<>>)} \cup {Some(title) : title \in WindowTitles}

RecognizeCalls ==
  {Call("recognize_intent", Some(text), None, context, None) :
     text \in Texts, context \in Contexts}
AnalyzeCalls ==
  {Call("analyze", user_input, window_title, None, None) :
     user_input \in OptionalTexts, window_title \in OptionalTitles}

InitRecognize ==
  /\ Fresh
  /\ pc = "pending"
  /\ input \in RecognizeCalls \cup AnalyzeCalls

RunRecognize ==
  /\ pc = "pending" /\ input.op = "recognize_intent"
  /\ Recognize(input.user_input.value, input.context)
  /\ UNCHANGED <<window, remembered, threads, compiled_patterns>>

RunAnalyze ==
  /\ pc = "pending" /\ input.op = "analyze"
  /\ Analyze(input.user_input, input.window_title)
  /\ UNCHANGED <<window, remembered, threads, compiled_patterns>>

NextRecognize == RunRecognize \/ RunAnalyze

SpecRecognize == InitRecognize /\ [][NextRecognize]_vars

(***************************************************************************)
(* SpecSession: a short session of calls in any order, with any of the     *)
(* session's texts and titles, of at most MaxObservations observations.    *)
(***************************************************************************)
MaxObservations == 5
SessionTexts == {None, Some(<<>>), Some(Text("hi")), Some(Text("https://example.com"))}
SessionTitles ==
  {None, Some(Text("Visual Studio Code")), Some(Text("PyCharm")), Some(Text("Google Chrome"))}

SessionContexts ==
  {None, Some(AnalysisTable[Text("PyCharm")]),
   Some([url |-> <<Text("https://caller.example")>>])}

InitSystem ==
  /\ Fresh
  /\ pc = "idle"
  /\ input = Call("none", None, None, None, None)

\* The call is remembered when keep is chosen, none is remembered yet, and it
\* has text and no title.
SessionAnalyze(user_input, window_title, keep) ==
  /\ Truthy(window_title) => Len(added) < MaxObservations
  /\ Analyze(user_input, window_title)
  /\ remembered' =
       IF keep /\ ~remembered.present /\ user_input.present /\ ~window_title.present
       THEN Some([user_input |-> user_input.value,
                  history |-> activity_history,
                  intent_type |-> result'.value.intent_type,
                  confidence |-> result'.value.confidence])
       ELSE remembered
  /\ UNCHANGED <<window, threads, compiled_patterns>>

SessionRecognize(user_input, context) ==
  /\ Recognize(user_input, context)
  /\ UNCHANGED <<window, remembered, threads, compiled_patterns>>

SessionAddActivity(window_title) ==
  /\ Len(added) < MaxObservations
  /\ AddActivity(AnalysisTable[window_title])
  /\ UNCHANGED <<window, remembered, threads, compiled_patterns>>

SessionDetectPattern ==
  /\ DetectPattern
  /\ UNCHANGED <<window, remembered, threads, compiled_patterns>>

NextSession ==
  \/ \E user_input \in SessionTexts, window_title \in SessionTitles, keep \in BOOLEAN :
       SessionAnalyze(user_input, window_title, keep)
  \/ \E user_input \in SessionTexts, context \in SessionContexts :
       user_input.present /\ SessionRecognize(user_input.value, context)
  \/ \E window_title \in SessionTitles :
       window_title.present /\ SessionAddActivity(window_title.value)
  \/ SessionDetectPattern

SpecSession == InitSystem /\ [][NextSession]_vars

(***************************************************************************)
(* Spec: a long run.  The user works through the windows of WindowSession  *)
(* in order; each observation is of the focused window.  At most MaxAdds   *)
(* records are added.                                                      *)
(***************************************************************************)
MaxAdds == 52
WindowSession == <<Text("Visual Studio Code"), Text("Google Chrome")>>
RunTexts == {None, Some(Text("hi"))}

SwitchWindow ==
  /\ window < Len(WindowSession)
  /\ window' = window + 1
  /\ UNCHANGED <<activity_history, pc, input, result, added, remembered, threads,
               compiled_patterns>>

Observe(user_input) ==
  /\ Len(added) < MaxAdds
  /\ Analyze(user_input, Some(WindowSession[window]))
  /\ UNCHANGED <<window, remembered, threads, compiled_patterns>>

AnalyzeText(user_input) ==
  /\ Analyze(user_input, None)
  /\ UNCHANGED <<window, remembered, threads, compiled_patterns>>

RecordActivity ==
  /\ Len(added) < MaxAdds
  /\ AddActivity(AnalysisTable[WindowSession[window]])
  /\ UNCHANGED <<window, remembered, threads, compiled_patterns>>

CheckPattern ==
  /\ DetectPattern
  /\ UNCHANGED <<window, remembered, threads, compiled_patterns>>

Next ==
  \/ SwitchWindow
  \/ \E user_input \in RunTexts : Observe(user_input)
  \/ \E user_input \in RunTexts : AnalyzeText(user_input)
  \/ RecordActivity
  \/ CheckPattern

Spec == InitSystem /\ [][Next]_vars

(***************************************************************************)
(* SpecMalformed: one call of recognize_intent or analyze on a fresh       *)
(* system with a text argument that is no str.                             *)
(***************************************************************************)
\* Python values that are no str, each with its type and its repr.
NonStrings ==
  {[type |-> "int", repr |-> "0"], [type |-> "int", repr |-> "5"],
   [type |-> "float", repr |-> "3.5"],
   [type |-> "list", repr |-> "[]"], [type |-> "list", repr |-> "[1]"],
   [type |-> "dict", repr |-> "{}"],
   [type |-> "bytes", repr |-> "b''"], [type |-> "bytes", repr |-> "b'hi'"]}

\* bool(value): zero and the empty containers are false.
NonStringTruthy(value) == value.repr \notin {"0", "[]", "{}", "b''"}

\* The exception recognize_intent raises on a value that is no str:
\* user_input.lower() fails on a value without that method; bytes has it,
\* and the first pattern.search of a str pattern on bytes fails.
RaisedBy(value) == IF value.type = "bytes" THEN "TypeError" ELSE "AttributeError"

\* The outcome of a call that raised: no value is returned.
Raised(error) == [present |-> FALSE, raised |-> error]

MalformedCalls ==
  {Call("recognize_intent", Some(value), None, context, None) :
     value \in NonStrings, context \in Contexts}
    \cup {Call("analyze", Some(value), window_title, None, None) :
            value \in NonStrings, window_title \in OptionalTitles}

InitMalformed ==
  /\ Fresh
  /\ pc = "pending"
  /\ input \in MalformedCalls

\* recognize_intent(value, context) with value no str
RunRecognizeMalformed ==
  /\ pc = "pending" /\ input.op = "recognize_intent"
  /\ result' = Raised(RaisedBy(input.user_input.value))
  /\ pc' = "raised"
  /\ UNCHANGED <<activity_history, input, added, window, remembered, threads,
               compiled_patterns>>

\* analyze(value, window_title) with value no str: the title is analyzed and
\* recorded first; a true value is handed to recognize_intent, which raises,
\* and a false one is taken for absent text.
RunAnalyzeMalformed ==
  /\ pc = "pending" /\ input.op = "analyze"
  /\ activity_history' =
       IF Truthy(input.window_title)
       THEN AddActivityTo(activity_history, AnalysisTable[input.window_title.value])
       ELSE activity_history
  /\ added' = IF Truthy(input.window_title)
              THEN Append(added, AnalysisTable[input.window_title.value])
              ELSE added
  /\ result' = IF NonStringTruthy(input.user_input.value)
               THEN Raised(RaisedBy(input.user_input.value))
               ELSE Some(AnalyzeOn(None, input.window_title))
  /\ pc' = IF NonStringTruthy(input.user_input.value) THEN "raised" ELSE "returned"
  /\ UNCHANGED <<input, window, remembered, threads, compiled_patterns>>

NextMalformed == RunRecognizeMalformed \/ RunAnalyzeMalformed

SpecMalformed == InitMalformed /\ [][NextMalformed]_vars

(***************************************************************************)
(* SpecTitle: one call of analyze_window_title, on a title of up to        *)
(* MaxTitleWords application names and other words.                        *)
(***************************************************************************)
MaxTitleWords == 2
TitleWords ==
  <<"Chrome", "Firefox", "Safari", "Edge", "Code", "Visual Studio", "PyCharm",
    "IntelliJ", "Word", "Docs", "Notepad", "Excel", "Sheets", "Calc",
    "Terminal", "notes", "Knowledge", "Calculator">>

RECURSIVE TitlesOf(_)
TitlesOf(n) ==
  IF n = 0 THEN {<<>>}
  ELSE LET shorter == TitlesOf(n - 1)
       IN shorter
            \cup {Text(TitleWords[w]) : w \in 1..Len(TitleWords)}
            \cup {t \o Text(" - ") \o Text(TitleWords[w]) :
                    t \in shorter \ {<<>>}, w \in 1..Len(TitleWords)}

InitTitle ==
  /\ Fresh
  /\ pc = "pending"
  /\ input \in {Call("analyze_window_title", None, Some(title), None, None) :
                  title \in TitlesOf(MaxTitleWords)}

\* screen_analyzer.analyze_window_title(window_title)
RunAnalyzeWindowTitle ==
  /\ pc = "pending"
  /\ result' = Some(AnalyzeWindowTitle(input.window_title.value))
  /\ pc' = "returned"
  /\ UNCHANGED <<activity_history, input, added, window, remembered, threads,
               compiled_patterns>>

NextTitle == RunAnalyzeWindowTitle

SpecTitle == InitTitle /\ [][NextTitle]_vars

(***************************************************************************)
(* SpecThreads: two threads call add_activity on the same analyzer at the  *)
(* same time, without a lock.  The history holds up to MaxHistory records  *)
(* of earlier observations.  A thread can be suspended between any two     *)
(* bytecodes: list.append is one step, and so are the read of the length,  *)
(* the slice and the store of the attribute.                               *)
(***************************************************************************)
MaxHeadroom == 5
ThreadTitles == <<Text("Google Chrome"), Text("Microsoft Word")>>

\* A history of n earlier observations of one window.
Observed(n) == [i \in 1..n |-> AnalysisTable[Text("PyCharm")]]

InitThreads ==
  /\ activity_history \in {Observed(n) : n \in (MaxHistory - MaxHeadroom)..MaxHistory}
  /\ added = activity_history
  /\ pc = "idle"
  /\ input = Call("none", None, None, None, None)
  /\ result = None
  /\ window = 1
  /\ remembered = None
  /\ compiled_patterns = CompilePatterns
  /\ threads = [t \in DOMAIN ThreadTitles |->
                  [pc |-> "append", activity |-> AnalysisTable[ThreadTitles[t]],
                   recent |-> <<>>]]

\* self.activity_history.append(activity)
ThreadAppend(t) ==
  /\ threads[t].pc = "append"
  /\ activity_history' = Append(activity_history, threads[t].activity)
  /\ added' = Append(added, threads[t].activity)
  /\ threads' = [threads EXCEPT ![t].pc = "check"]
  /\ UNCHANGED <<pc, input, result, window, remembered, compiled_patterns>>

\* if len(self.activity_history) > 50:
ThreadCheck(t) ==
  /\ threads[t].pc = "check"
  /\ threads' = [threads EXCEPT ![t].pc =
                   IF Len(activity_history) > MaxHistory THEN "slice" ELSE "done"]
  /\ UNCHANGED <<activity_history, added, pc, input, result, window, remembered,
                 compiled_patterns>>

\* self.activity_history[-50:], the right-hand side of the assignment
ThreadSlice(t) ==
  /\ threads[t].pc = "slice"
  /\ threads' = [threads EXCEPT ![t].pc = "store",
                                ![t].recent = LastN(activity_history, MaxHistory)]
  /\ UNCHANGED <<activity_history, added, pc, input, result, window, remembered,
                 compiled_patterns>>

\* self.activity_history = ..., the store of the attribute
ThreadStore(t) ==
  /\ threads[t].pc = "store"
  /\ activity_history' = threads[t].recent
  /\ threads' = [threads EXCEPT ![t].pc = "done"]
  /\ UNCHANGED <<added, pc, input, result, window, remembered, compiled_patterns>>

NextThreads ==
  \/ \E t \in DOMAIN threads : ThreadAppend(t)
  \/ \E t \in DOMAIN threads : ThreadCheck(t)
  \/ \E t \in DOMAIN threads : ThreadSlice(t)
  \/ \E t \in DOMAIN threads : ThreadStore(t)

SpecThreads == InitThreads /\ [][NextThreads]_vars

(***************************************************************************)
(* Properties                                                              *)
(***************************************************************************)
\* The last call was of op and has returned.
Returned(op) == pc = "returned" /\ input.op = op

\* The sum of the weights of the rules of S.
RECURSIVE WeightSum(_, _)
WeightSum(rules, S) ==
  IF S = {} THEN 0
  ELSE LET j == CHOOSE r \in S : TRUE
       IN rules[j].weight + WeightSum(rules, S \ {j})

\* The empty text, and a text of whitespace and symbols only.
Degenerate(text) == \A i \in 1..Len(text) : ~IsWord(text[i])

\* Every record of the sequence has the same activity label.
SameLabel(records) ==
  \A i \in 1..Len(records) : records[i].activity_type = records[1].activity_type

\* C1: every Intent that recognize_intent returns, for every text and
\* context, and that analyze returns, for every combination of present or
\* absent user_input and window_title, has a confidence between 0.0 and 1.0.
ConfidenceInRange ==
  (Returned("recognize_intent") \/ Returned("analyze")) =>
    (result.value.confidence >= 0 /\ result.value.confidence <= 100)

\* analyze on a text and a title returns 1.0 where a category's sum of
\* weights and bonuses exceeds 1.0.
ClampedConfidenceReturned ==
  /\ Returned("analyze")
  /\ Truthy(input.user_input) /\ Truthy(input.window_title)
  /\ result.value.confidence = 100
  /\ \E c \in 1..Len(INTENT_PATTERNS) :
       CategoryScoreUnclamped(INTENT_PATTERNS[c],
                              MatchTable[input.user_input.value][c]).score > 100

\* C2: recognize_intent returns the top-ranked category with its clamped
\* score as confidence exactly when that score is at least 0.3 (the top is
\* casual_chat) or at least 0.4 (any other category); otherwise it returns
\* casual_chat with confidence exactly 0.5.
ThresholdSelection ==
  Returned("recognize_intent") =>
    LET top == SortedTable[input.user_input.value][1]
        accepted == IF top.intent = "casual_chat" THEN top.score >= 30
                    ELSE top.score >= 40
    IN IF accepted
       THEN result.value.intent_type = top.intent /\ result.value.confidence = top.score
       ELSE result.value.intent_type = "casual_chat" /\ result.value.confidence = 50

\* The top-ranked category is below its threshold and casual_chat, whose
\* own score differs from 0.5, is returned with 0.5.
FallbackTaken ==
  /\ Returned("recognize_intent")
  /\ SortedTable[input.user_input.value][1].intent # "casual_chat"
  /\ SortedTable[input.user_input.value][1].score < 40
  /\ \E c \in 1..Len(INTENT_PATTERNS) :
       /\ ScoreTable[input.user_input.value][c].intent = "casual_chat"
       /\ ScoreTable[input.user_input.value][c].score # 50
  /\ result.value.intent_type = "casual_chat" /\ result.value.confidence = 50

\* C3: the score of every category on every input is min(1.0, W + 0.05*L + B):
\* W the sum of the weights of the category's rules that match the lowercased
\* input, L the number of those whose matched span is longer than 10
\* characters, B = min((k-1)*0.1, 0.3) for k > 1 matching rules and 0 otherwise.
ScoreFormula ==
  Returned("recognize_intent") =>
    \A c \in 1..Len(INTENT_PATTERNS) :
      LET rules == INTENT_PATTERNS[c].rules
          found == MatchTable[input.user_input.value][c]
          matching == {j \in 1..Len(rules) : found[j].found}
          W == WeightSum(rules, matching)
          L == Cardinality({j \in matching : found[j].end - found[j].start > 10})
          k == Cardinality(matching)
          B == IF k > 1 THEN Min((k - 1) * 10, 30) ELSE 0
      IN ScoreTable[input.user_input.value][c].score = Min(100, W + 5 * L + B)

\* A category matches the input with several rules, one of them on a span of
\* more than 10 characters.
LongAndMultipleMatches ==
  /\ Returned("recognize_intent")
  /\ \E c \in 1..Len(INTENT_PATTERNS) :
       LET found == MatchTable[input.user_input.value][c]
           matching == {j \in DOMAIN found : found[j].found}
       IN /\ Cardinality(matching) > 1
          /\ \E j \in matching : found[j].end - found[j].start > 10

\* C4: the category ranked first has the maximal clamped score and, among the
\* categories with that score, the maximal number of matching rules.
RankedFirstIsMaximal ==
  Returned("recognize_intent") =>
    LET scores == ScoreTable[input.user_input.value]
        best == SortedTable[input.user_input.value][1]
    IN /\ \E c \in DOMAIN scores : scores[c] = best
       /\ \A c \in DOMAIN scores :
            \/ scores[c].score < best.score
            \/ (scores[c].score = best.score /\ scores[c].match_count <= best.match_count)

\* A category earlier in the catalog ties with the first-ranked one on score
\* and matched fewer rules.
TieBrokenByMatchCount ==
  /\ Returned("recognize_intent")
  /\ LET scores == ScoreTable[input.user_input.value]
         best == SortedTable[input.user_input.value][1]
     IN \E c, d \in DOMAIN scores :
          /\ c < d /\ scores[d] = best
          /\ scores[c].score = best.score /\ scores[c].match_count < best.match_count

\* C5: recognize_intent on the empty text, a whitespace-only text or a
\* symbol-only text returns (no exception) casual_chat with a confidence of
\* at least 0, through the fallback: the top-ranked category is below its
\* threshold.
DegenerateIsCasualChat ==
  (Returned("recognize_intent") /\ Degenerate(input.user_input.value)) =>
    /\ result.present
    /\ result.value.intent_type = "casual_chat"
    /\ result.value.confidence >= 0
    /\ LET top == SortedTable[input.user_input.value][1]
       IN top.score < (IF top.intent = "casual_chat" THEN 30 ELSE 40)

\* recognize_intent has returned casual_chat on a text of symbols.
SymbolsRecognized ==
  /\ Returned("recognize_intent")
  /\ input.user_input.value = Text("!@#$%^&*()")
  /\ result.value.intent_type = "casual_chat"

\* C6: whenever analyze is given a text, the empty text included, with or
\* without a window title, the returned category is not unknown.
TextIsNeverUnknown ==
  (Returned("analyze") /\ input.user_input.present) =>
    result.value.intent_type # "unknown"

\* C7: two calls of analyze with the same text and no window title return
\* the same category and the same confidence, whatever analyze calls happen
\* before or between them.
SameTextSameAnswer ==
  (/\ Returned("analyze")
   /\ input.user_input.present /\ ~input.window_title.present
   /\ remembered.present
   /\ remembered.value.user_input = input.user_input.value) =>
    /\ result.value.intent_type = remembered.value.intent_type
    /\ result.value.confidence = remembered.value.confidence

\* The second of two such calls ran on another history than the first, one
\* that shows a focus.
AnsweredAgainAfterFocus ==
  /\ Returned("analyze")
  /\ input.user_input.present /\ ~input.window_title.present
  /\ remembered.present
  /\ remembered.value.user_input = input.user_input.value
  /\ input.user_input.value = Text("hi")
  /\ remembered.value.history # activity_history
  /\ DetectPatternOf(activity_history).present

\* C8: in every state reached by add_activity and analyze calls the activity
\* history holds at most 50 records.
HistoryBounded == Len(activity_history) <= 50

\* More than 50 records were added and the history is full.
HistoryFull == Len(added) > 50 /\ Len(activity_history) = 50

\* C9: after n added records the activity history is the last min(n, 50) of
\* them, in the order they were added.
HistoryIsLastAdded ==
  LET n == Len(added)
      m == IF n < 50 THEN n ELSE 50
  IN /\ Len(activity_history) = m
     /\ \A i \in 1..m : activity_history[i] = added[n - m + i]

\* Records were evicted from a history that holds records of two labels.
EvictedInOrder ==
  /\ Len(added) > 50
  /\ activity_history[1].activity_type # activity_history[50].activity_type

\* C10: from an empty history, after 5 consecutive observations of one label
\* detect_pattern reports a focus on that label, and after only 4 it reports
\* nothing.
FocusAfterFiveNotFour ==
  (Returned("detect_pattern") /\ activity_history = added /\ SameLabel(added)) =>
    /\ Len(added) = 5 => result = Some(<<"User is focused on ", added[1].activity_type>>)
    /\ Len(added) = 4 => result = None

\* C11: analyze with no text and a non-empty window title returns unknown,
\* confidence 0.3, an empty raw_input, a non-empty suggested action and the
\* screen context of the title as entities; a title labelled coding gives
\* entities["activity_type"] = "coding".
ScreenOnlyResult ==
  (Returned("analyze") /\ ~input.user_input.present /\ Truthy(input.window_title)) =>
    /\ result.value.intent_type = "unknown"
    /\ result.value.confidence = 30
    /\ result.value.raw_input = <<>>
    /\ result.value.suggested_action.present
    /\ result.value.suggested_action.value # ""
    /\ result.value.entities = AnalysisTable[input.window_title.value]
    /\ AnalysisTable[input.window_title.value].activity_type = "coding" =>
         result.value.entities["activity_type"] = "coding"

\* analyze has answered a coding title given without text.
CodingTitleAnswered ==
  /\ Returned("analyze") /\ ~input.user_input.present
  /\ input.window_title = Some(Text("PyCharm"))
  /\ result.value.entities["activity_type"] = "coding"

\* C12: analyze with neither text nor window title returns unknown,
\* confidence 0.0, no entities, an empty raw_input and no suggested action.
NothingSuppliedResult ==
  (Returned("analyze") /\ ~input.user_input.present /\ ~input.window_title.present) =>
    /\ result.value.intent_type = "unknown"
    /\ result.value.confidence = 0
    /\ DOMAIN result.value.entities = {}
    /\ result.value.raw_input = <<>>
    /\ ~result.value.suggested_action.present

\* analyze has answered a call without text and without title.
NothingSuppliedAnswered ==
  /\ Returned("analyze") /\ ~input.user_input.present /\ ~input.window_title.present
  /\ result.present /\ result.value.intent_type = "unknown"

\* C13: in the result of recognize_intent(text, context) every key of
\* context is a key of entities with the context's value, also when the
\* extractor found matches under that key; an extracted kind that is no key
\* of context keeps its extracted value.
ContextOverlaysEntities ==
  (Returned("recognize_intent") /\ input.context.present) =>
    /\ \A key \in DOMAIN input.context.value :
         /\ key \in DOMAIN result.value.entities
         /\ result.value.entities[key] = input.context.value[key]
    /\ \A key \in DOMAIN EntityTable[input.user_input.value] \ DOMAIN input.context.value :
         /\ key \in DOMAIN result.value.entities
         /\ result.value.entities[key] = EntityTable[input.user_input.value][key]

\* The context holds a key under which the extractor found other matches,
\* and the extractor found a kind that is no key of the context.
ContextCollides ==
  /\ Returned("recognize_intent") /\ input.context.present
  /\ \E key \in DOMAIN input.context.value \cap DOMAIN EntityTable[input.user_input.value] :
       EntityTable[input.user_input.value][key] # input.context.value[key]
  /\ DOMAIN EntityTable[input.user_input.value] \ DOMAIN input.context.value # {}

\* C14: an entity kind is a key of the extractor's result if and only if a
\* match of that kind was found in the text; no kind maps to an empty
\* sequence.
EntityKindsHaveMatches ==
  Returned("recognize_intent") =>
    LET found == FoundTable[input.user_input.value]
        entities == EntityTable[input.user_input.value]
    IN /\ \A e \in DOMAIN found :
            found[e].kind \in DOMAIN entities <=> Len(found[e].matches) >= 1
       /\ \A key \in DOMAIN entities : entities[key] # <<>>

\* The extractor found matches of some kinds and none of others.
SomeKindsFound ==
  /\ Returned("recognize_intent")
  /\ LET found == FoundTable[input.user_input.value]
     IN /\ \E e \in DOMAIN found : found[e].matches # <<>>
        /\ \E e \in DOMAIN found : found[e].matches = <<>>
  /\ DOMAIN EntityTable[input.user_input.value] = {"url", "number", "time"}

\* C15: every result of recognize_intent carries a non-empty suggested
\* action, the sentence the table assigns to the selected category; the
\* generic sentence is returned only for a category without an entry.
SuggestedActionFromTable ==
  Returned("recognize_intent") =>
    /\ result.value.suggested_action.present
    /\ result.value.suggested_action.value # ""
    /\ result.value.intent_type \in DOMAIN Suggestions =>
         result.value.suggested_action.value = Suggestions[result.value.intent_type]
    /\ result.value.suggested_action.value = "How can I help you?" =>
         result.value.intent_type \notin DOMAIN Suggestions

\* recognize_intent has selected screenshot and suggests its sentence.
ScreenshotSuggested ==
  /\ Returned("recognize_intent")
  /\ result.value.intent_type = "screenshot"
  /\ result.value.suggested_action = Some("Taking a screenshot now...")

\* The place of a category in the catalog.
CategoryIndex(intent) ==
  CHOOSE c \in 1..Len(INTENT_PATTERNS) : INTENT_PATTERNS[c].intent = intent

\* found, the searches of every category on one text, holds a match of some
\* rule of category c.
CategoryMatches(found, c) == \E j \in DOMAIN found[c] : found[c][j].found

\* found holds no match of a rule of another category than c.
OnlyCategory(found, c) == \A d \in DOMAIN found : d # c => ~CategoryMatches(found, d)

\* The direct-URL rule, the first of open_url, matches.
DirectUrlMatches(found) == found[CategoryIndex("open_url")][1].found

\* C16: an input matched by the direct-URL rule or by a screenshot rule, and
\* by no rule of another category, is classified as open_url or screenshot
\* with a confidence of at least 0.8; so are "https://example.com", the
\* Chinese cue for screenshot and "screenshot".
UnambiguousCueClassified ==
  Returned("recognize_intent") =>
    LET text == input.user_input.value
        found == MatchTable[text]
    IN /\ (DirectUrlMatches(found) /\ OnlyCategory(found, CategoryIndex("open_url"))) =>
            (result.value.intent_type = "open_url" /\ result.value.confidence >= 80)
       /\ (/\ CategoryMatches(found, CategoryIndex("screenshot"))
           /\ OnlyCategory(found, CategoryIndex("screenshot"))) =>
            (result.value.intent_type = "screenshot" /\ result.value.confidence >= 80)
       /\ text = Text("https://example.com") =>
            (result.value.intent_type = "open_url" /\ result.value.confidence >= 80)
       /\ text \in {Text("{622a}{56fe}"), Text("screenshot")} =>
            (result.value.intent_type = "screenshot" /\ result.value.confidence >= 80)

\* The bare URL, matched by rules of open_url alone, is classified.
BareUrlClassified ==
  /\ Returned("recognize_intent")
  /\ input.user_input.value = Text("https://example.com")
  /\ DirectUrlMatches(MatchTable[input.user_input.value])
  /\ OnlyCategory(MatchTable[input.user_input.value], CategoryIndex("open_url"))
  /\ result.value.intent_type = "open_url"

\* C17: for every input in which the direct-URL rule or a screenshot rule
\* matches, casual_chat is not the selected category and its score is not
\* above the score of open_url or screenshot, whatever greeting or
\* acknowledgement the input also holds.
CueBeatsGreeting ==
  Returned("recognize_intent") =>
    LET found == MatchTable[input.user_input.value]
        scores == ScoreTable[input.user_input.value]
        casual == scores[CategoryIndex("casual_chat")].score
    IN /\ DirectUrlMatches(found) =>
            /\ result.value.intent_type # "casual_chat"
            /\ casual <= scores[CategoryIndex("open_url")].score
       /\ CategoryMatches(found, CategoryIndex("screenshot")) =>
            /\ result.value.intent_type # "casual_chat"
            /\ casual <= scores[CategoryIndex("screenshot")].score

\* C18: a call of recognize_intent or analyze with a text that is no str
\* fails with an error and returns no result; the value is not taken for
\* absent text.
MalformedTextFails ==
  pc # "pending" =>
    /\ pc = "raised"
    /\ ~result.present

\* The characters of [a-zA-Z0-9].
AlnumChars == CharsOf(UpperLetters) \cup CharsOf(LowerLetters) \cup DigitChars

\* A name, a dot and an extension of letters and digits, without quotes.
IsFilename(name) ==
  /\ \A k \in DOMAIN name : name[k] \notin {"\"", "'"}
  /\ \E k \in 2..(Len(name) - 1) :
       /\ name[k] = "."
       /\ \A m \in (k + 1)..Len(name) : name[m] \in AlnumChars

\* The filenames that stand in text between two quotes of the same kind.
QuotedFilenames(text) ==
  {SubSeq(text, i + 1, j - 1) : <<i, j>> \in
     {p \in (DOMAIN text) \X (DOMAIN text) :
        /\ p[1] < p[2]
        /\ text[p[1]] \in {"\"", "'"}
        /\ text[p[2]] = text[p[1]]
        /\ IsFilename(SubSeq(text, p[1] + 1, p[2] - 1))}}

\* C19: whatever surrounds it, a filename with an extension that stands in
\* quotes in the text is an element of entities["file_path"] of the result.
QuotedFilenameExtracted ==
  Returned("recognize_intent") =>
    \A name \in QuotedFilenames(input.user_input.value) :
      /\ "file_path" \in DOMAIN result.value.entities
      /\ \E k \in DOMAIN result.value.entities["file_path"] :
           result.value.entities["file_path"][k] = name

\* C20: in the pattern catalog every rule weight lies in (0, 1], every
\* casual_chat rule weight in [0.3, 0.8], and every screenshot rule, the
\* direct-URL rule and the leading remember rule weigh between 0.8 and 0.95;
\* stated of the catalog every answered call has scored against.
CatalogWeightsInRange ==
  Returned("recognize_intent") =>
  /\ \A c \in DOMAIN INTENT_PATTERNS : \A r \in DOMAIN INTENT_PATTERNS[c].rules :
       /\ INTENT_PATTERNS[c].rules[r].weight \in 1..100
       /\ INTENT_PATTERNS[c].intent = "casual_chat" =>
            INTENT_PATTERNS[c].rules[r].weight \in 30..80
       /\ INTENT_PATTERNS[c].intent = "screenshot" =>
            INTENT_PATTERNS[c].rules[r].weight \in 80..95
  /\ INTENT_PATTERNS[CategoryIndex("open_url")].rules[1].weight \in 80..95
  /\ INTENT_PATTERNS[CategoryIndex("memory")].rules[1].weight \in 80..95

\* A call answered from one screenshot rule alone: the confidence returned
\* is that rule's weight.
ScreenshotWeightReturned ==
  /\ Returned("recognize_intent")
  /\ input.user_input.value = Text("screenshot")
  /\ OnlyCategory(MatchTable[input.user_input.value], CategoryIndex("screenshot"))
  /\ result.value.intent_type = "screenshot"
  /\ result.value.confidence = 95

\* C21: an analyze call with a non-empty window title appends exactly one
\* record, the analysis of that title, to the activity history, with or
\* without text (the oldest record leaves a full history); an analyze call
\* without a title and every recognize_intent call leave the history as it
\* was.
HistoryFrame ==
  [][/\ (input'.op = "analyze" /\ Truthy(input'.window_title)) =>
          activity_history' =
            Append(IF Len(activity_history) = 50 THEN Tail(activity_history)
                   ELSE activity_history,
                   AnalyzeWindowTitle(input'.window_title.value))
     /\ (input'.op = "analyze" /\ ~Truthy(input'.window_title)) =>
          activity_history' = activity_history
     /\ input'.op = "recognize_intent" => activity_history' = activity_history]_vars

\* An analyze call with text and a title has added a third record to the
\* history.
TitleRecordedWithText ==
  /\ Returned("analyze")
  /\ Truthy(input.user_input) /\ Truthy(input.window_title)
  /\ Len(activity_history) = 3
  /\ activity_history[3] = AnalyzeWindowTitle(input.window_title.value)

\* The labels analyze_window_title gives.
ActivityTypes == {"web_browsing", "coding", "writing", "spreadsheet", "unknown"}

\* C22: on a history of at least 5 records detect_pattern reports "User is
\* focused on X" exactly when the 5 most recent records all have the
\* activity type X, and nothing otherwise, whatever the older records are.
RecentFiveDecide ==
  (Returned("detect_pattern") /\ Len(activity_history) >= 5) =>
    LET recent == SubSeq(activity_history, Len(activity_history) - 4,
                         Len(activity_history))
    IN /\ \A X \in ActivityTypes :
            result = Some(<<"User is focused on ", X>>)
              <=> \A i \in 1..5 : recent[i].activity_type = X
       /\ result = None <=> ~SameLabel(recent)

\* A focus is reported on a history whose older records have another label
\* than the last five.
FocusDespiteOlderRecords ==
  /\ Returned("detect_pattern")
  /\ Len(activity_history) >= 6
  /\ activity_history[1].activity_type = "coding"
  /\ result = Some(<<"User is focused on ", "web_browsing">>)

\* The keyword groups in the order browser, IDE/editor, word processor,
\* spreadsheet, each with its label and application name.
KeywordGroups ==
  <<[keywords |-> BrowserKeywords, activity_type |-> "web_browsing", app_name |-> "browser"],
    [keywords |-> IdeKeywords, activity_type |-> "coding", app_name |-> "ide"],
    [keywords |-> WriterKeywords, activity_type |-> "writing", app_name |-> "text_editor"],
    [keywords |-> SheetKeywords, activity_type |-> "spreadsheet", app_name |-> "spreadsheet_app"]>>

\* The groups of which the lowercased title contains a keyword.
GroupsIn(window_title) ==
  {g \in DOMAIN KeywordGroups :
     \E k \in DOMAIN KeywordGroups[g].keywords :
       Contains(Lower(window_title), KeywordGroups[g].keywords[k])}

\* C23: analyze_window_title labels a title with the earliest keyword group,
\* in the order browser, IDE/editor, word processor, spreadsheet, of which
\* the lowercased title contains a keyword, and with unknown and an empty
\* app_name when it contains none.
EarliestGroupLabels ==
  Returned("analyze_window_title") =>
    LET groups == GroupsIn(input.window_title.value)
    IN IF groups = {}
       THEN result.value.activity_type = "unknown" /\ result.value.app_name = ""
       ELSE \E g \in groups :
              /\ \A h \in groups : g <= h
              /\ result.value.activity_type = KeywordGroups[g].activity_type
              /\ result.value.app_name = KeywordGroups[g].app_name

\* A title with keywords of two groups, the later group named first, has the
\* label of the earlier group.
TwoGroupsInTitle ==
  /\ Returned("analyze_window_title")
  /\ input.window_title.value = Text("Docs - Chrome")
  /\ GroupsIn(input.window_title.value) = {1, 3}
  /\ result.value.activity_type = "web_browsing"

\* C24: when two threads call add_activity on the same analyzer at the same
\* time without a lock, every interleaving ends with a history of at most 50
\* records that holds both records added.
BothRecordsKept ==
  (threads # <<>> /\ \A t \in DOMAIN threads : threads[t].pc = "done") =>
    /\ Len(activity_history) <= 50
    /\ \A t \in DOMAIN threads :
         \E i \in DOMAIN activity_history : activity_history[i] = threads[t].activity

\* C25: for a fixed text the category and the confidence that analyze
\* returns are the same with every window title as with none, and those that
\* recognize_intent returns are the same with every context map as with none.
TitleAndContextIgnored ==
  /\ (/\ Returned("analyze")
      /\ input.user_input.present
      /\ remembered.present
      /\ remembered.value.user_input = input.user_input.value) =>
       /\ result.value.intent_type = remembered.value.intent_type
       /\ result.value.confidence = remembered.value.confidence
  /\ Returned("recognize_intent") =>
       /\ result.value.intent_type =
            RecognizeIntent(input.user_input.value, None).intent_type
       /\ result.value.confidence =
            RecognizeIntent(input.user_input.value, None).confidence

\* C26: recognize_intent takes the fallback branch, casual_chat with 0.5,
\* exactly when no rule of any category matches the input; every confidence
\* it returns is at least 0.4, and a top-ranked casual_chat passes the
\* threshold 0.3 only with a score that passes 0.4 as well.
FallbackIffNoMatch ==
  Returned("recognize_intent") =>
    LET found == MatchTable[input.user_input.value]
        top == SortedTable[input.user_input.value][1]
        fallback == top.score < Threshold(top.intent)
    IN /\ fallback <=> \A c \in DOMAIN found : ~CategoryMatches(found, c)
       /\ fallback => (result.value.intent_type = "casual_chat"
                        /\ result.value.confidence = 50)
       /\ ~fallback => (result.value.intent_type = top.intent
                         /\ result.value.confidence = top.score)
       /\ result.value.confidence >= 40
       /\ top.intent = "casual_chat" => (top.score >= 30 <=> top.score >= 40)

\* A text of words that no rule matches is answered by the fallback.
WordsWithoutMatch ==
  /\ Returned("recognize_intent")
  /\ input.user_input.value = Text("Random text here")
  /\ \A c \in DOMAIN MatchTable[input.user_input.value] :
       ~CategoryMatches(MatchTable[input.user_input.value], c)
  /\ result.value.intent_type = "casual_chat"
  /\ result.value.confidence = 50

\* The categories whose key (score, match_count) no other category exceeds.
TopCategories(scores) ==
  {c \in DOMAIN scores :
     \A d \in DOMAIN scores :
       \/ scores[d].score < scores[c].score
       \/ (scores[d].score = scores[c].score
            /\ scores[d].match_count <= scores[c].match_count)}

\* The earliest category of a non-empty set of categories.
Earliest(S) == CHOOSE c \in S : \A d \in S : c <= d

\* C27 as stated: when several categories tie on both clamped score and
\* match count, recognize_intent selects the one declared earliest in the
\* catalog, and never casual_chat, which is declared last.
TieSelectsEarliest ==
  Returned("recognize_intent") =>
    LET scores == ScoreTable[input.user_input.value]
    IN Cardinality(TopCategories(scores)) > 1 =>
         /\ result.value.intent_type = scores[Earliest(TopCategories(scores))].intent
         /\ result.value.intent_type # "casual_chat"

\* C27, amended: when several categories that matched some rule tie for the
\* top on both clamped score and match count, recognize_intent selects the
\* one declared earliest in the catalog, and never casual_chat.
MatchedTieSelectsEarliest ==
  Returned("recognize_intent") =>
    LET scores == ScoreTable[input.user_input.value]
    IN (/\ Cardinality(TopCategories(scores)) > 1
        /\ \A c \in TopCategories(scores) : scores[c].match_count > 0) =>
         /\ result.value.intent_type = scores[Earliest(TopCategories(scores))].intent
         /\ result.value.intent_type # "casual_chat"

\* task_execution and casual_chat tie for the top with one rule at 0.4 each,
\* and task_execution is selected.
CasualChatTiesForTop ==
  /\ Returned("recognize_intent")
  /\ input.user_input.value = Text("ok do")
  /\ TopCategories(ScoreTable[input.user_input.value])
       = {CategoryIndex("task_execution"), CategoryIndex("casual_chat")}
  /\ ScoreTable[input.user_input.value][CategoryIndex("casual_chat")].match_count = 1
  /\ result.value.intent_type = "task_execution"
  /\ result.value.confidence = 40

\* C28: in one recognize_intent call each rule is counted at most once,
\* however often its pattern occurs in the input: a category's match count
\* is the number of its matching rules, never more than its rules, and its
\* score holds, for each matching rule, the weight once and at most one
\* long-match bonus of 0.05.
RuleCountedOnce ==
  Returned("recognize_intent") =>
    LET found == MatchTable[input.user_input.value]
        scores == ScoreTable[input.user_input.value]
    IN \A c \in DOMAIN scores :
         LET rules == INTENT_PATTERNS[c].rules
             matching == {j \in DOMAIN rules : found[c][j].found}
             n == Cardinality(matching)
             bonus == IF n > 1 THEN Min((n - 1) * 10, 30) ELSE 0
         IN /\ scores[c].match_count = n
            /\ scores[c].match_count <= Len(rules)
            /\ scores[c].score >= Min(WeightSum(rules, matching) + bonus, 100)
            /\ scores[c].score <= Min(WeightSum(rules, matching) + 5 * n + bonus, 100)

\* The pattern of a matching rule occurs a second time in the input, behind
\* its first match, and the rule is counted once.
PatternOccursTwice ==
  /\ Returned("recognize_intent")
  /\ input.user_input.value = Text("ok ok")
  /\ LET found == MatchTable[input.user_input.value]
         c == CategoryIndex("casual_chat")
     IN \E j \in DOMAIN found[c] :
          /\ found[c][j].found
          /\ SearchFrom(INTENT_PATTERNS[c].rules[j].re, Lower(input.user_input.value),
                        found[c][j].end).found
          /\ ScoreTable[input.user_input.value][c].match_count = 1
  /\ result.value.intent_type = "casual_chat"
  /\ result.value.confidence = 40

\* C29: recognize_intent and analyze never modify the compiled pattern
\* catalog nor a context map passed by the caller: after a call the catalog
\* is the one built at construction and the map the caller passed is as it
\* was before the call.
CatalogAndContextUntouched ==
  [][/\ compiled_patterns' = CompilePatterns
     /\ (pc = "pending" /\ input.op = "recognize_intent") =>
          input'.context = input.context]_vars

\* recognize_intent has merged a caller's map into the entities it found,
\* and the caller's map does not hold what was found.
ContextMergedIntoEntities ==
  /\ Returned("recognize_intent")
  /\ Truthy(input.context)
  /\ "url" \in DOMAIN EntityTable[input.user_input.value]
  /\ "url" \notin DOMAIN input.context.value
  /\ "url" \in DOMAIN result.value.entities
  /\ compiled_patterns = CompilePatterns

\* The entity kinds of ENTITY_PATTERNS.
EntityKinds == {ENTITY_PATTERNS[e].kind : e \in DOMAIN ENTITY_PATTERNS}

\* C30: the result of recognize_intent has raw_input equal to the text as
\* supplied, and every entity it extracted (every value of an entity kind
\* that the context does not supply) is a substring of that original text,
\* in its original letter case.
OriginalTextKept ==
  Returned("recognize_intent") =>
    /\ result.value.raw_input = input.user_input.value
    /\ \A kind \in (EntityKinds \cap DOMAIN result.value.entities) :
         (Truthy(input.context) => kind \notin DOMAIN input.context.value) =>
           \A k \in DOMAIN result.value.entities[kind] :
             Contains(input.user_input.value, result.value.entities[kind][k])

\* A text with upper-case letters in a quoted filename and in a URL: both are
\* extracted as written.
UpperCaseEntities ==
  /\ Returned("recognize_intent")
  /\ input.user_input.value = Text("Open \"README.md\" at https://Example.com")
  /\ input.user_input.value # Lower(input.user_input.value)
  /\ result.value.entities["file_path"] = <<Text("README.md")>>
  /\ result.value.entities["url"] = <<Text("https://Example.com")>>
  /\ result.value.raw_input = input.user_input.value

====
